---- MODULE Spec2Model ----
(***************************************************************************)
(* Presence engine of is-he-online: the Redis-backed presence store        *)
(* (RedisManager), its heartbeat monitor and session tracker, and the      *)
(* HTTP / SSE surface of UWSServer that drives it.                         *)
(*                                                                         *)
(* Time is counted in seconds (1 unit = 1000 ms of Date.now()).  A value   *)
(* that is null / undefined / absent in the code is 0 for a timestamp,     *)
(* "" for a string and the empty sequence for a stored JSON document:      *)
(* Date.now() is never 0, so the code's truthiness tests (a || b, if (x))  *)
(* are tests against 0 / "" / <<>> here.                                   *)
(***************************************************************************)
EXTENDS Integers, Sequences, FiniteSets, TLC

\* ------------------------------------------------------------- bounds
MaxPolls == 1
MaxInbox == 2
MaxInFlight == 2

\* -------------------------------------------------- program constants
HEARTBEAT_TIMEOUT == 30
POLL_INTERVAL == 5
RATE_LIMIT_COOLDOWN == 2
RATE_LIMIT_TTL == 2
SIMILARITY_WINDOW == 3
SESSION_HISTORY_TTL == 300
KEEPALIVE_INTERVAL == 30

\* ------------------------------------------------------ input domains
SessionIds == {"s1", "s2"}
RateLimitIds == SessionIds \cup {"default"}
DiscordStatuses == {"online", "idle", "offline"}
Lines == {10, 50}
Latencies == {0}
Conns == {"c1", "c2"}
HubConns == {"c1"}
\* the clock readings at which something happens: a few seconds after start-up, then
\* the heartbeat monitor's ticks once the 30 s timeout can have run out
FirstLatePoll == 7 * POLL_INTERVAL
Instants == {1, 2, 4, 7} \cup {FirstLatePoll + POLL_INTERVAL * k : k \in 0..MaxPolls}
HubInstants == {2, 7}
ApiKey == <<"K">>
Headers == {<<>>, <<"Bearer", "K">>, <<"ApiKey", "K">>, <<"Bearer", "X">>}

VARIABLES
    clock,             \* Date.now()
    discordActivity,   \* key discord:activity
    discordStatus,     \* key discord:status
    discordHeartbeat,  \* key discord:heartbeat
    vscodeActivity,    \* key vscode:activity
    vscodeStatus,      \* key vscode:status
    vscodeHeartbeat,   \* key vscode:heartbeat
    vscodeSession,     \* key vscode:session
    sessionExpiry,     \* expiry time of vscode:session (0: no TTL)
    rateLimit,         \* keys vscode:activity:ratelimit:<sessionId>
    polled,            \* the heartbeat monitor already ran at this clock value
    sseConnections,    \* UWSServer.sseConnections
    conn,              \* per /events response: aborted flag, replay position, keepalive timer
    inbox,             \* per /events response: the SSE messages written to it
    out,               \* what the most recent handler answered and published
    redisQueue         \* commands of setDiscordActivity calls sent on the Redis connection
                       \* and not yet executed, in the order they were sent

store == <<discordActivity, discordStatus, discordHeartbeat, vscodeActivity,
           vscodeStatus, vscodeHeartbeat, vscodeSession, sessionExpiry, rateLimit>>
hub == <<sseConnections, conn, inbox>>
vars == <<clock, store, polled, hub, out, redisQueue>>

\* a || b on timestamps
Or(a, b) == IF a # 0 THEN a ELSE b

Has(doc) == Len(doc) > 0

\* ------------------------------------------------------------ documents
NoDoc == <<>>

\* UserActivity as stored under discord:activity
DiscordActivityDoc(status, now) == [status |-> status, timestamp |-> now]

\* a request body that is valid JSON but has no workspace and no editor object
MalformedActivity(now) ==
    [ok |-> FALSE, workspace |-> "", fileName |-> "", lineNumber |-> 0,
     columnNumber |-> 0, timestamp |-> now, sessionId |-> "s1"]

\* the well-formed VSCodeActivity payloads an editor can send at time now
WellFormedActivities(now) ==
    [ok : {TRUE}, workspace : {"w1"}, fileName : {"a.ts"}, lineNumber : Lines,
     columnNumber : {1}, timestamp : {now - l : l \in {x \in Latencies : x < now}},
     sessionId : SessionIds]

\* request bodies: text that is not JSON (no document), JSON without the payload's
\* objects, or a payload
Bodies(now) == {NoDoc, <<MalformedActivity(now)>>} \cup {<<a>> : a \in WellFormedActivities(now)}

\* variant of the statusUpdate object in which coming online keeps the old offline_since
DiscordStatusUpdate_KeepOffline(currentStatus, status, now) ==
    [current_status |-> status, last_seen |-> now,
     online_since |-> IF status # "offline" THEN now ELSE 0,
     offline_since |-> IF Has(currentStatus) THEN currentStatus[1].offline_since
                       ELSE IF status = "offline" THEN now ELSE 0]

\* variant of setDiscordActivity that restamps the timestamps of the side the source
\* stays on
DiscordStatusUpdate_Restamp(currentStatus, status, now) ==
    [current_status |-> status, last_seen |-> now,
     online_since |-> IF status # "offline" THEN now
                      ELSE IF Has(currentStatus) THEN currentStatus[1].online_since ELSE 0,
     offline_since |-> IF status = "offline" THEN now ELSE 0]

\* ------------------------------------------------- RedisManager: Discord
\* the statusUpdate object setDiscordActivity writes
DiscordStatusUpdate(currentStatus, status, now) ==
    LET base == [current_status |-> status, last_seen |-> now,
                 online_since |-> 0, offline_since |-> 0]
    IN  IF Has(currentStatus)
        THEN LET cur == currentStatus[1]
             IN  IF cur.current_status = "offline" /\ status # "offline"
                 THEN [base EXCEPT !.online_since = now, !.offline_since = 0]
                 ELSE IF cur.current_status # "offline" /\ status = "offline"
                 THEN [base EXCEPT !.offline_since = now, !.online_since = cur.online_since]
                 ELSE [base EXCEPT !.online_since = cur.online_since,
                                   !.offline_since = cur.offline_since]
        ELSE IF status # "offline"
             THEN [base EXCEPT !.online_since = now]
             ELSE [base EXCEPT !.offline_since = now]

\* variant of markDiscordOffline that rewrites the status without marking it offline
MarkDiscordOfflineUpdate_StaysOnline(currentStatus, now) ==
    [current_status |-> "online", last_seen |-> now,
     online_since |-> IF Has(currentStatus) THEN currentStatus[1].online_since ELSE 0,
     offline_since |-> 0]

\* the statusUpdate object markDiscordOffline writes
MarkDiscordOfflineUpdate(currentStatus, now) ==
    [current_status |-> "offline", last_seen |-> now,
     online_since |-> IF Has(currentStatus) THEN currentStatus[1].online_since ELSE 0,
     offline_since |-> now]

\* getDiscordActivity, on given documents
GetDiscordActivityOf(activityData, statusData) ==
    IF ~Has(activityData) THEN NoDoc
    ELSE <<[activity |-> activityData[1],
            online_since |-> IF Has(statusData) THEN statusData[1].online_since ELSE 0,
            offline_since |-> IF Has(statusData) THEN statusData[1].offline_since ELSE 0,
            last_seen |-> Or(IF Has(statusData) THEN statusData[1].last_seen ELSE 0,
                             activityData[1].timestamp)]>>

getDiscordActivity == GetDiscordActivityOf(discordActivity, discordStatus)

\* variant of the marker key in which every session shares one cooldown
SessionKey_Shared(activity) == "default"

\* -------------------------------------------------- RedisManager: VSCode
\* const sessionId = activity.sessionId || 'default'
SessionKey(activity) == IF activity.sessionId # "" THEN activity.sessionId ELSE "default"

\* variant of the gate with a cooldown of one second
IsRateLimited_OneSecond(marker, now) == marker # 0 /\ now - marker < 1

\* the rate-limit gate of setVSCodeActivity
IsRateLimited(marker, now) == marker # 0 /\ now - marker < RATE_LIMIT_COOLDOWN

\* isSimilarVSCodeActivity dereferences current.workspace, new_activity.workspace,
\* current.editor and new_activity.editor: a TypeError when one of them is missing
SimilarThrows(current, new_activity) ==
    \/ ~Has(current)
    \/ ~current[1].ok
    \/ ~new_activity.ok

Abs(n) == IF n < 0 THEN -n ELSE n

\* variant of the comparison with a window of two seconds
isSimilarVSCodeActivity_Window2(current, new_activity) ==
    /\ current.workspace = new_activity.workspace
    /\ current.fileName = new_activity.fileName
    /\ current.lineNumber = new_activity.lineNumber
    /\ current.columnNumber = new_activity.columnNumber
    /\ Abs(current.timestamp - new_activity.timestamp) < 2

isSimilarVSCodeActivity(current, new_activity) ==
    /\ current.workspace = new_activity.workspace
    /\ current.fileName = new_activity.fileName
    /\ current.lineNumber = new_activity.lineNumber
    /\ current.columnNumber = new_activity.columnNumber
    /\ Abs(current.timestamp - new_activity.timestamp) < SIMILARITY_WINDOW

\* variant of startVSCodeSession that keeps the start time of a session begun earlier
NewSession_Backdated(sessionId, now) ==
    [sessionId |-> sessionId, startTime |-> now - 1, lastHeartbeat |-> now,
     endTime |-> 0, status |-> "active", endReason |-> ""]

\* the session object startVSCodeSession writes
NewSession(sessionId, now) ==
    [sessionId |-> sessionId, startTime |-> now, lastHeartbeat |-> now,
     endTime |-> 0, status |-> "active", endReason |-> ""]

\* variant of updateVSCodeHeartbeat that restarts the session's clock
HeartbeatSession_Restart(sessionData, now) ==
    IF Has(sessionData)
    THEN <<[sessionData[1] EXCEPT !.lastHeartbeat = now, !.startTime = now,
                                  !.status = "active"]>>
    ELSE NoDoc

\* the session key after updateVSCodeHeartbeat
HeartbeatSession(sessionData, now) ==
    IF Has(sessionData)
    THEN <<[sessionData[1] EXCEPT !.lastHeartbeat = now, !.status = "active"]>>
    ELSE NoDoc

\* variant of endVSCodeSession that leaves the session record as it is
EndedSession_NotEnded(sessionData, reason, now) == sessionData

\* the session key after endVSCodeSession(reason)
EndedSession(sessionData, reason, now) ==
    IF Has(sessionData)
    THEN <<[sessionData[1] EXCEPT !.endTime = now, !.status = "ended", !.endReason = reason]>>
    ELSE NoDoc

\* variant of endVSCodeSession that keeps the ended record for 30 s only
EndedSessionExpiry_Short(sessionData, expiry, now) ==
    IF Has(sessionData) THEN now + HEARTBEAT_TIMEOUT ELSE expiry

\* the TTL of the session key after endVSCodeSession: setex 300 when a session is stored
EndedSessionExpiry(sessionData, expiry, now) ==
    IF Has(sessionData) THEN now + SESSION_HISTORY_TTL ELSE expiry

\* the statusUpdate object setVSCodeActivity writes; currentSession is the session
\* read before startVSCodeSession was called
VSCodeStatusUpdate(currentStatus, currentSession, sessionId, now) ==
    LET sessionStart == IF Has(currentSession) THEN currentSession[1].startTime ELSE 0
        base == [is_active |-> TRUE, last_seen |-> now, sessionId |-> sessionId,
                 online_since |-> 0, offline_since |-> 0]
    IN  IF Has(currentStatus)
        THEN IF ~currentStatus[1].is_active \/ currentStatus[1].sessionId # sessionId
             THEN [base EXCEPT !.online_since = Or(sessionStart, now)]
             ELSE [base EXCEPT !.online_since =
                        Or(sessionStart, Or(currentStatus[1].online_since, now))]
        ELSE [base EXCEPT !.online_since = Or(sessionStart, now)]

\* the statusUpdate object markVSCodeOffline writes
MarkVSCodeOfflineUpdate(currentStatus, currentSession, now) ==
    [is_active |-> FALSE, last_seen |-> now,
     online_since |-> Or(IF Has(currentSession) THEN currentSession[1].startTime ELSE 0,
                         IF Has(currentStatus) THEN currentStatus[1].online_since ELSE 0),
     offline_since |-> now,
     sessionId |-> IF Has(currentStatus) THEN currentStatus[1].sessionId ELSE ""]

\* variant of the session view whose duration always runs to now
SessionView_Running(sessionData, now) ==
    IF Has(sessionData)
    THEN LET s == sessionData[1]
         IN  <<[sessionId |-> s.sessionId, startTime |-> s.startTime, endTime |-> s.endTime,
                status |-> s.status, duration |-> now - s.startTime]>>
    ELSE NoDoc

\* the session part of getVSCodeActivity's result
SessionView(sessionData, now) ==
    IF Has(sessionData)
    THEN LET s == sessionData[1]
         IN  <<[sessionId |-> s.sessionId, startTime |-> s.startTime, endTime |-> s.endTime,
                status |-> s.status,
                duration |-> IF s.endTime # 0 THEN s.endTime - s.startTime
                             ELSE now - s.startTime]>>
    ELSE NoDoc

\* getVSCodeActivity, on given documents
GetVSCodeActivityOf(activityData, statusData, sessionData, now) ==
    IF ~Has(activityData) /\ ~Has(sessionData) THEN NoDoc
    ELSE LET status == IF Has(statusData) THEN statusData[1]
                       ELSE [online_since |-> 0, offline_since |-> 0, last_seen |-> 0]
             session == IF Has(sessionData) THEN sessionData[1]
                        ELSE [startTime |-> 0, endTime |-> 0, lastHeartbeat |-> 0]
         IN  <<[activity |-> activityData,
                online_since |-> Or(status.online_since, session.startTime),
                offline_since |-> Or(status.offline_since, session.endTime),
                last_seen |-> Or(Or(status.last_seen, session.lastHeartbeat),
                                 IF Has(activityData) THEN activityData[1].timestamp ELSE 0),
                session |-> SessionView(sessionData, now)]>>

getVSCodeActivity == GetVSCodeActivityOf(vscodeActivity, vscodeStatus, vscodeSession, clock)

\* variant of the heartbeat test that fires at the timeout itself
HeartbeatTimedOut_AtTimeout(mark, now) == mark # 0 /\ now - mark >= HEARTBEAT_TIMEOUT

\* the heartbeat test of checkHeartbeats
HeartbeatTimedOut(mark, now) == mark # 0 /\ now - mark > HEARTBEAT_TIMEOUT

\* what setVSCodeActivity returns and the VSCode keys it leaves behind
SetVSCodeActivity(activity, now) ==
    LET sessionId == SessionKey(activity)
        unchanged == [activity |-> vscodeActivity, status |-> vscodeStatus,
                      heartbeat |-> vscodeHeartbeat, session |-> vscodeSession,
                      expiry |-> sessionExpiry, rateLimit |-> rateLimit]
        currentActivity == getVSCodeActivity
        currentSession == vscodeSession
        startNew == \/ ~Has(currentSession)
                    \/ currentSession[1].sessionId # sessionId
                    \/ currentSession[1].status = "ended"
        started == IF startNew THEN <<NewSession(sessionId, now)>> ELSE currentSession
    IN  IF IsRateLimited(rateLimit[sessionId], now)
        THEN [result |-> "ratelimited"] @@ unchanged
        ELSE IF Has(currentActivity) /\ SimilarThrows(currentActivity[1].activity, activity)
        THEN [result |-> "throw"] @@ unchanged
        ELSE IF Has(currentActivity)
                /\ isSimilarVSCodeActivity(currentActivity[1].activity[1], activity)
        THEN [result |-> "nochange"] @@
             [unchanged EXCEPT !.heartbeat = now,
                               !.session = HeartbeatSession(vscodeSession, now),
                               !.expiry = IF Has(vscodeSession) THEN 0 ELSE sessionExpiry]
        ELSE [result |-> "updated",
              activity |-> <<activity>>,
              status |-> <<VSCodeStatusUpdate(vscodeStatus, currentSession, sessionId, now)>>,
              heartbeat |-> now,
              session |-> HeartbeatSession(started, now),
              expiry |-> 0,
              rateLimit |-> [rateLimit EXCEPT ![sessionId] = now]]

\* variant of clearVSCodeActivity that leaves the heartbeat mark in place
ClearVSCodeActivity_KeepsMark(now) ==
    LET ended == EndedSession(vscodeSession, "manual", now)
    IN  [activity |-> NoDoc,
         status |-> <<MarkVSCodeOfflineUpdate(vscodeStatus, ended, now)>>,
         heartbeat |-> vscodeHeartbeat,
         session |-> ended,
         expiry |-> EndedSessionExpiry(vscodeSession, sessionExpiry, now),
         rateLimit |-> rateLimit]

\* the VSCode keys clearVSCodeActivity leaves behind
ClearVSCodeActivity(now) ==
    LET ended == EndedSession(vscodeSession, "manual", now)
    IN  [activity |-> NoDoc,
         status |-> <<MarkVSCodeOfflineUpdate(vscodeStatus, ended, now)>>,
         heartbeat |-> 0,
         session |-> ended,
         expiry |-> EndedSessionExpiry(vscodeSession, sessionExpiry, now),
         rateLimit |-> rateLimit]

VSCodeKeysBecome(r) ==
    /\ vscodeActivity' = r.activity
    /\ vscodeStatus' = r.status
    /\ vscodeHeartbeat' = r.heartbeat
    /\ vscodeSession' = r.session
    /\ sessionExpiry' = r.expiry
    /\ rateLimit' = r.rateLimit

vscodeKeys == <<vscodeActivity, vscodeStatus, vscodeHeartbeat, vscodeSession,
                sessionExpiry, rateLimit>>
discordKeys == <<discordActivity, discordStatus, discordHeartbeat>>

\* ------------------------------------------------------------ UWSServer
\* authHeader.replace(scheme + ' ', ''): the header without the first occurrence
Replace(header, scheme) ==
    IF \E i \in 1..Len(header) : header[i] = scheme
    THEN LET i == CHOOSE k \in 1..Len(header) :
                      header[k] = scheme /\ \A j \in 1..(k - 1) : header[j] # scheme
         IN  SubSeq(header, 1, i - 1) \o SubSeq(header, i + 1, Len(header))
    ELSE header

apiKeyFromHeader(authHeader) ==
    IF Replace(authHeader, "Bearer") # <<>>
    THEN Replace(authHeader, "Bearer")
    ELSE Replace(authHeader, "ApiKey")

\* variant of the check that accepts any header carrying a credential
Authorized_AnyCredential(authHeader) == authHeader # <<>>

Authorized(authHeader) ==
    apiKeyFromHeader(authHeader) # <<>> /\ apiKeyFromHeader(authHeader) = ApiKey

Msg(event, line, status) == [event |-> event, line |-> line, status |-> status]

\* the responses sendSSEMessage writes to: in the set and not aborted
Open(c) == c \in sseConnections /\ ~conn[c].aborted

Room(n) == \A c \in Conns : Open(c) => Len(inbox[c]) + n <= MaxInbox

\* variant of the pass that writes to no response
Written_Nothing(msgs) == inbox

\* variant of the pass that stops after the first response
Written_FirstOnly(msgs) ==
    [c \in Conns |-> IF Open(c) /\ c = "c1" THEN inbox[c] \o msgs ELSE inbox[c]]

\* the inboxes after a pass over sseConnections writing msgs
Written(msgs) == [c \in Conns |-> IF Open(c) THEN inbox[c] \o msgs ELSE inbox[c]]

\* variant of the sweep that empties the set
Swept_Everyone == {}

\* sseConnections after the dead-connection sweep of a broadcast
Swept == sseConnections \ {c \in sseConnections : conn[c].aborted}

Answer(op, code, reason, events) ==
    out' = [op |-> op, code |-> code, reason |-> reason, events |-> events]

OfflineMsgs(events) == [i \in 1..Len(events) |-> Msg(events[i], 0, "")]

\* ------------------------------------------------------------- initial
NoConn == [used |-> FALSE, aborted |-> FALSE, replay |-> "none",
           keepalive |-> FALSE, due |-> 0]

Init ==
    /\ clock = 1
    /\ discordActivity = NoDoc
    /\ discordStatus = NoDoc
    /\ discordHeartbeat = 0
    /\ vscodeActivity = NoDoc
    /\ vscodeStatus = NoDoc
    /\ vscodeHeartbeat = 0
    /\ vscodeSession = NoDoc
    /\ sessionExpiry = 0
    /\ rateLimit = [s \in RateLimitIds |-> 0]
    /\ polled = FALSE
    /\ sseConnections = {}
    /\ conn = [c \in Conns |-> NoConn]
    /\ inbox = [c \in Conns |-> <<>>]
    /\ out = [op |-> "init", code |-> 0, reason |-> "", events |-> <<>>]
    /\ redisQueue = <<>>

\* -------------------------------------------------------------- actions
\* time passes; keys whose TTL has run out expire. The heartbeat monitor's interval
\* timer fires at every poll instant, so time does not pass one without the poll
Tick(t) ==
    /\ t > clock
    /\ \A p \in Instants : (clock <= p /\ p < t /\ p % POLL_INTERVAL = 0)
                                => (p = clock /\ polled)
    /\ clock' = t
    /\ polled' = FALSE
    /\ vscodeSession' = IF sessionExpiry # 0 /\ sessionExpiry <= t
                        THEN NoDoc ELSE vscodeSession
    /\ sessionExpiry' = IF sessionExpiry # 0 /\ sessionExpiry <= t
                        THEN 0 ELSE sessionExpiry
    /\ rateLimit' = [s \in RateLimitIds |->
                        IF rateLimit[s] # 0 /\ rateLimit[s] + RATE_LIMIT_TTL <= t
                        THEN 0 ELSE rateLimit[s]]
    /\ Answer("tick", 0, "", <<>>)
    /\ UNCHANGED <<discordKeys, vscodeActivity, vscodeStatus, vscodeHeartbeat, hub,
                   redisQueue>>

\* bot.onActivity -> UWSServer.broadcastDiscordActivity(activity)
BroadcastDiscordActivity(status) ==
    /\ Room(1)
    /\ discordActivity' = <<DiscordActivityDoc(status, clock)>>
    /\ discordStatus' = <<DiscordStatusUpdate(discordStatus, status, clock)>>
    /\ discordHeartbeat' = clock
    /\ inbox' = Written(<<Msg("activity-update", 0,
                   GetDiscordActivityOf(discordActivity', discordStatus')[1].activity.status)>>)
    /\ sseConnections' = Swept
    /\ Answer("discord-activity", 0, "", <<"activity-update">>)
    /\ UNCHANGED <<clock, redisQueue, vscodeKeys, polled, conn>>

\* the setInterval callback of startHeartbeatMonitoring: checkHeartbeats
CheckHeartbeats ==
    /\ clock % POLL_INTERVAL = 0
    /\ ~polled
    /\ LET now == clock
           vscodeOut == HeartbeatTimedOut(vscodeHeartbeat, now)
           discordOut == HeartbeatTimedOut(discordHeartbeat, now)
           ended == EndedSession(vscodeSession, "timeout", now)
           events == (IF vscodeOut THEN <<"vscode-offline">> ELSE <<>>)
                     \o (IF discordOut THEN <<"discord-offline">> ELSE <<>>)
       IN  /\ Room(Len(events))
           /\ vscodeSession' = IF vscodeOut THEN ended ELSE vscodeSession
           /\ sessionExpiry' = IF vscodeOut
                               THEN EndedSessionExpiry(vscodeSession, sessionExpiry, now)
                               ELSE sessionExpiry
           /\ vscodeStatus' = IF vscodeOut
                              THEN <<MarkVSCodeOfflineUpdate(vscodeStatus, ended, now)>>
                              ELSE vscodeStatus
           /\ discordStatus' = IF discordOut
                               THEN <<MarkDiscordOfflineUpdate(discordStatus, now)>>
                               ELSE discordStatus
           /\ inbox' = Written(OfflineMsgs(events))
           /\ Answer("poll", 0, "", events)
    /\ polled' = TRUE
    /\ UNCHANGED <<clock, redisQueue, discordActivity, discordHeartbeat, vscodeActivity,
                   vscodeHeartbeat, rateLimit, sseConnections, conn>>

Unauthorized(op) ==
    /\ Answer(op, 401, "Unauthorized", <<>>)
    /\ UNCHANGED <<clock, redisQueue, store, polled, hub>>

\* processVSCodeActivity(res, data)
processVSCodeActivity(body) ==
    IF ~Has(body)
    THEN /\ Answer("vscode-activity", 400, "Invalid", <<>>)
         /\ UNCHANGED <<vscodeKeys, hub>>
    ELSE LET r == SetVSCodeActivity(body[1], clock)
         IN  CASE r.result = "throw" ->
                    /\ Answer("vscode-activity", 400, "Invalid", <<>>)
                    /\ UNCHANGED <<vscodeKeys, hub>>
               [] r.result = "ratelimited" ->
                    /\ VSCodeKeysBecome(r)
                    /\ Answer("vscode-activity", 202, "RateLimited", <<>>)
                    /\ UNCHANGED hub
               [] r.result = "nochange" ->
                    /\ VSCodeKeysBecome(r)
                    /\ Answer("vscode-activity", 202, "NoChange", <<>>)
                    /\ UNCHANGED hub
               [] r.result = "updated" /\ ~body[1].ok ->
                    /\ VSCodeKeysBecome(r)
                    /\ Answer("vscode-activity", 400, "Invalid", <<>>)
                    /\ UNCHANGED hub
               [] r.result = "updated" /\ body[1].ok ->
                    /\ Room(1)
                    /\ VSCodeKeysBecome(r)
                    /\ inbox' = Written(<<Msg("vscode-update",
                          GetVSCodeActivityOf(r.activity, r.status, r.session, clock)[1]
                              .activity[1].lineNumber, "")>>)
                    /\ sseConnections' = Swept
                    /\ UNCHANGED conn
                    /\ Answer("vscode-activity", 200, "", <<"vscode-update">>)

\* POST /vscode-activity
PostVSCodeActivity(authHeader, body) ==
    IF ~Authorized(authHeader)
    THEN Unauthorized("vscode-activity")
    ELSE /\ processVSCodeActivity(body)
         /\ UNCHANGED <<clock, redisQueue, discordKeys, polled>>

\* POST /vscode-cleanup
PostVSCodeCleanup(authHeader) ==
    IF ~Authorized(authHeader)
    THEN Unauthorized("vscode-cleanup")
    ELSE /\ Room(1)
         /\ VSCodeKeysBecome(ClearVSCodeActivity(clock))
         /\ inbox' = Written(OfflineMsgs(<<"vscode-offline">>))
         /\ Answer("vscode-cleanup", 200, "", <<"vscode-offline">>)
         /\ UNCHANGED <<clock, redisQueue, discordKeys, polled, sseConnections, conn>>

\* POST /vscode-heartbeat
PostVSCodeHeartbeat(authHeader) ==
    IF ~Authorized(authHeader)
    THEN Unauthorized("vscode-heartbeat")
    ELSE /\ vscodeHeartbeat' = clock
         /\ vscodeSession' = HeartbeatSession(vscodeSession, clock)
         /\ sessionExpiry' = IF Has(vscodeSession) THEN 0 ELSE sessionExpiry
         /\ Answer("vscode-heartbeat", 200, "", <<>>)
         /\ UNCHANGED <<clock, redisQueue, discordKeys, vscodeActivity, vscodeStatus, rateLimit,
                        polled, hub>>

\* POST /vscode-session-start; body is NoDoc (not JSON) or <<sessionId>>
PostVSCodeSessionStart(authHeader, body) ==
    IF ~Authorized(authHeader)
    THEN Unauthorized("vscode-session-start")
    ELSE IF ~Has(body)
    THEN /\ Answer("vscode-session-start", 400, "Invalid", <<>>)
         /\ UNCHANGED <<clock, redisQueue, store, polled, hub>>
    ELSE /\ vscodeSession' = <<NewSession(body[1], clock)>>
         /\ sessionExpiry' = 0
         /\ vscodeHeartbeat' = clock
         /\ Answer("vscode-session-start", 200, "", <<>>)
         /\ UNCHANGED <<clock, redisQueue, discordKeys, vscodeActivity, vscodeStatus, rateLimit,
                        polled, hub>>

\* variant of sendSSEMessage that writes to an aborted response as well
Sent_WritesToAborted(c, msg) == [inbox EXCEPT ![c] = Append(@, msg)]

\* sendSSEMessage(res, event, data) on one response. conn[c].aborted is the state the
\* library keeps for the response: the property res.aborted that the guards read is
\* assigned nowhere, so after an abort the write is attempted and the library refuses it
Sent(c, msg) == [inbox EXCEPT ![c] = IF conn[c].aborted THEN @ ELSE Append(@, msg)]

\* GET /events: the response joins sseConnections, the replay is started (it first
\* awaits getDiscordActivity) and the keepalive timer is set
Subscribe(c) ==
    /\ ~conn[c].used
    /\ sseConnections' = sseConnections \cup {c}
    /\ conn' = [conn EXCEPT ![c] = [used |-> TRUE, aborted |-> FALSE, replay |-> "discord",
                                    keepalive |-> TRUE, due |-> clock + KEEPALIVE_INTERVAL]]
    /\ Answer("events", 200, "", <<>>)
    /\ UNCHANGED <<clock, redisQueue, store, polled, inbox>>

\* where sendInitialSSEData goes on after its first write: a write attempted on an
\* aborted response is refused by the library, either silently or by an exception that
\* the catch of sendInitialSSEData takes, which skips the second half
ReplayAfterDiscord(c) ==
    IF conn[c].aborted /\ Has(getDiscordActivity) THEN {"vscode", "done"} ELSE {"vscode"}

\* sendInitialSSEData, resumed with the reply of getDiscordActivity
ReplayDiscord(c) ==
    /\ conn[c].replay = "discord"
    /\ Len(inbox[c]) < MaxInbox
    /\ inbox' = IF Has(getDiscordActivity)
                THEN Sent(c, Msg("activity-update", 0, getDiscordActivity[1].activity.status))
                ELSE inbox
    /\ \E next \in ReplayAfterDiscord(c) : conn' = [conn EXCEPT ![c].replay = next]
    /\ Answer("replay-discord", 0, "", <<>>)
    /\ UNCHANGED <<clock, redisQueue, store, polled, sseConnections>>

\* sendInitialSSEData, resumed with the reply of getVSCodeActivity
ReplayVSCode(c) ==
    /\ conn[c].replay = "vscode"
    /\ Len(inbox[c]) < MaxInbox
    /\ inbox' = IF Has(getVSCodeActivity)
                THEN Sent(c, Msg("vscode-update",
                                 IF Has(getVSCodeActivity[1].activity)
                                 THEN getVSCodeActivity[1].activity[1].lineNumber ELSE 0, ""))
                ELSE inbox
    /\ conn' = [conn EXCEPT ![c].replay = "done"]
    /\ Answer("replay-vscode", 0, "", <<>>)
    /\ UNCHANGED <<clock, redisQueue, store, polled, sseConnections>>

\* the keepalive setInterval callback of one /events response
Keepalive(c) ==
    /\ conn[c].keepalive
    /\ clock >= conn[c].due
    /\ Len(inbox[c]) < MaxInbox
    /\ inbox' = Sent(c, Msg("heartbeat", 0, ""))
    /\ conn' = [conn EXCEPT ![c].keepalive = ~conn[c].aborted,
                            ![c].due = clock + KEEPALIVE_INTERVAL]
    /\ Answer("keepalive", 0, "", <<>>)
    /\ UNCHANGED <<clock, redisQueue, store, polled, sseConnections>>

\* variant of the abort handler that empties sseConnections
Abort_DropsAll(c) ==
    /\ conn[c].used
    /\ ~conn[c].aborted
    /\ sseConnections' = {}
    /\ conn' = [conn EXCEPT ![c].aborted = TRUE, ![c].keepalive = FALSE]
    /\ Answer("aborted", 0, "", <<>>)
    /\ UNCHANGED <<clock, redisQueue, store, polled, inbox>>

\* variant of the abort handler that leaves the response in sseConnections
Abort_KeepsSubscriber(c) ==
    /\ conn[c].used
    /\ ~conn[c].aborted
    /\ conn' = [conn EXCEPT ![c].aborted = TRUE, ![c].keepalive = FALSE]
    /\ Answer("aborted", 0, "", <<>>)
    /\ UNCHANGED <<clock, redisQueue, store, polled, inbox, sseConnections>>

\* the connection of one /events response closes: the library invalidates the response
\* and calls the res.onAborted handler, which deletes it from sseConnections and clears
\* its keepalive interval
Abort(c) ==
    /\ conn[c].used
    /\ ~conn[c].aborted
    /\ sseConnections' = sseConnections \ {c}
    /\ conn' = [conn EXCEPT ![c].aborted = TRUE, ![c].keepalive = FALSE]
    /\ Answer("aborted", 0, "", <<>>)
    /\ UNCHANGED <<clock, redisQueue, store, polled, inbox>>

\* the bodies a handler gets to read: an unauthorized request is answered before
\* res.onData is registered
ActivityBodies(authHeader, now) == IF Authorized(authHeader) THEN Bodies(now) ELSE {NoDoc}
SessionBodies(authHeader) ==
    IF Authorized(authHeader) THEN {NoDoc} \cup {<<s>> : s \in SessionIds} ELSE {NoDoc}

\* the two sources share no key: no VSCode key is stored / no Discord key is stored
EditorIdle == vscodeKeys = <<NoDoc, NoDoc, 0, NoDoc, 0, [s \in RateLimitIds |-> 0]>>
ChatIdle == discordKeys = <<NoDoc, NoDoc, 0>>

\* the presence store under its two sources, the heartbeat monitor and the clock,
\* with no /events subscriber; a run exercises one source
Next ==
    \/ \E t \in Instants : Tick(t)
    \/ CheckHeartbeats
    \/ EditorIdle /\ \E status \in DiscordStatuses : BroadcastDiscordActivity(status)
    \/ ChatIdle /\ \E h \in Headers : \E body \in ActivityBodies(h, clock) :
                       PostVSCodeActivity(h, body)
    \/ ChatIdle /\ \E h \in Headers : PostVSCodeCleanup(h)
    \/ ChatIdle /\ \E h \in Headers : PostVSCodeHeartbeat(h)
    \/ ChatIdle /\ \E h \in Headers : \E body \in SessionBodies(h) :
                       PostVSCodeSessionStart(h, body)

Spec == Init /\ [][Next]_vars

\* the broadcast hub: one /events subscriber, its replay, and the handlers that
\* publish live updates to it; a run exercises one source, the editor as session s1
HubBodies(authHeader, now) ==
    {b \in ActivityBodies(authHeader, now) : Has(b) => b[1].sessionId = "s1"}

NextHub ==
    \/ \E t \in HubInstants : Tick(t)
    \/ EditorIdle /\ \E status \in {"online", "offline"} : BroadcastDiscordActivity(status)
    \/ ChatIdle /\ \E h \in Headers : \E body \in HubBodies(h, clock) :
                       PostVSCodeActivity(h, body)
    \/ \E c \in HubConns : Subscribe(c)
    \/ \E c \in HubConns : ReplayDiscord(c)
    \/ \E c \in HubConns : ReplayVSCode(c)
    \/ \E c \in HubConns : Abort(c)

SpecHub == Init /\ [][NextHub]_vars

\* ------------------------------------- setDiscordActivity, command by command
\* One call of broadcastDiscordActivity has one command on the Redis connection at a
\* time: the GET of setDiscordActivity's getDiscordStatus, then the pipeline of three
\* SETs, then the reads of getDiscordActivity. The connection executes commands in the
\* order they were sent, and a call's continuation sends its next command when the
\* reply arrives.
Command(kind, activity, statusUpdate, now) ==
    [kind |-> kind, activity |-> activity, statusUpdate |-> statusUpdate, now |-> now]

\* bot.onActivity fires: broadcastDiscordActivity -> setDiscordActivity runs up to its
\* first await, the GET is on the connection
IssueDiscordActivity(status) ==
    /\ Len(redisQueue) < MaxInFlight
    /\ redisQueue' = Append(redisQueue,
                            Command("read", DiscordActivityDoc(status, clock), NoDoc, 0))
    /\ Answer("discord-issued", 0, "", <<>>)
    /\ UNCHANGED <<clock, store, polled, hub>>

\* the GET executes; the continuation takes now = Date.now(), computes statusUpdate
\* from the reply and sends the pipeline
ReplyDiscordStatus ==
    /\ redisQueue # <<>>
    /\ Head(redisQueue).kind = "read"
    /\ redisQueue' = Append(Tail(redisQueue),
            Command("write", Head(redisQueue).activity,
                    <<DiscordStatusUpdate(discordStatus, Head(redisQueue).activity.status,
                                          clock)>>,
                    clock))
    /\ Answer("discord-read", 0, "", <<>>)
    /\ UNCHANGED <<clock, store, polled, hub>>

\* the pipeline executes; broadcastDiscordActivity goes on to getDiscordActivity
ExecDiscordPipeline ==
    /\ redisQueue # <<>>
    /\ Head(redisQueue).kind = "write"
    /\ discordActivity' = <<Head(redisQueue).activity>>
    /\ discordStatus' = Head(redisQueue).statusUpdate
    /\ discordHeartbeat' = Head(redisQueue).now
    /\ redisQueue' = Append(Tail(redisQueue),
                            Command("get", Head(redisQueue).activity, NoDoc, 0))
    /\ Answer("discord-write", 0, "", <<>>)
    /\ UNCHANGED <<clock, vscodeKeys, polled, hub>>

\* the reads of getDiscordActivity execute; the broadcast loop writes what they returned
ReplyDiscordActivity ==
    /\ redisQueue # <<>>
    /\ Head(redisQueue).kind = "get"
    /\ Room(1)
    /\ inbox' = Written(<<Msg("activity-update", 0,
                              getDiscordActivity[1].activity.status)>>)
    /\ sseConnections' = Swept
    /\ redisQueue' = Tail(redisQueue)
    /\ Answer("discord-activity", 0, "", <<"activity-update">>)
    /\ UNCHANGED <<clock, store, polled, conn>>

RaceInstants == {2, 4}

\* presence events arriving while earlier ones are still being stored
NextRace ==
    \/ \E t \in RaceInstants : Tick(t)
    \/ \E status \in DiscordStatuses : IssueDiscordActivity(status)
    \/ ReplyDiscordStatus
    \/ ExecDiscordPipeline
    \/ ReplyDiscordActivity

SpecRace == Init /\ [][NextRace]_vars

\* ------------------------------------------- two subscribers and their timers
\* Two /events responses with their replays, keepalive timers and aborts, and every
\* handler that writes to the subscribers: the Discord broadcast, the editor routes
\* and the heartbeat monitor. A run exercises one source, the editor as session s1.
StreamInstants == {FirstLatePoll}

\* what the editor sends in these runs: no JSON, JSON without the payload's objects,
\* or one and the same edit
StreamBodies(authHeader, now) ==
    {b \in HubBodies(authHeader, now) : (Has(b) /\ b[1].ok) => b[1].lineNumber = 10}

\* the second response is the one that connects second
InOrder(c) == c = "c1" \/ conn["c1"].used

NextStreams ==
    \/ \E t \in StreamInstants : Tick(t)
    \/ CheckHeartbeats
    \/ EditorIdle /\ BroadcastDiscordActivity("online")
    \/ ChatIdle /\ \E h \in Headers : \E body \in StreamBodies(h, clock) :
                       PostVSCodeActivity(h, body)
    \/ ChatIdle /\ \E h \in Headers : PostVSCodeCleanup(h)
    \/ \E c \in Conns : InOrder(c) /\ Subscribe(c)
    \/ \E c \in Conns : ReplayDiscord(c)
    \/ \E c \in Conns : ReplayVSCode(c)
    \/ \E c \in Conns : Keepalive(c)
    \/ \E c \in Conns : Abort(c)

SpecStreams == Init /\ [][NextStreams]_vars

\* ------------------------- checkHeartbeats and setVSCodeActivity, command by command
\* Both run as chains of awaited Redis commands on the one connection. A chain has one
\* command (or one Promise.all / pipeline group) in flight; the connection executes
\* commands in the order they were sent, and the continuation of a reply sends the
\* chain's next command. Command.kind names the command at the head of a chain,
\* Command.activity carries the request payload, Command.statusUpdate the document the
\* chain holds in a local, Command.now the chain's captured Date.now().
At(kind) == redisQueue # <<>> /\ Head(redisQueue).kind = kind
SendNext(cmd) == redisQueue' = Append(Tail(redisQueue), cmd)
ChainEnds == redisQueue' = Tail(redisQueue)
Step(op) == Answer(op, 0, "", <<>>)

\* setInterval fires: checkHeartbeats takes now and sends GET vscode:heartbeat
PollStart ==
    /\ clock % POLL_INTERVAL = 0
    /\ ~polled
    /\ Len(redisQueue) < MaxInFlight
    /\ polled' = TRUE
    /\ redisQueue' = Append(redisQueue, Command("poll-get-heartbeat", NoDoc, NoDoc, clock))
    /\ Step("poll-issued")
    /\ UNCHANGED <<clock, store, hub>>

\* reply of GET vscode:heartbeat: the timeout test; endVSCodeSession sends GET session.
\* Without a timeout the chain goes on to the Discord mark, the last command of the poll.
PollGetHeartbeat ==
    /\ At("poll-get-heartbeat")
    /\ SendNext(Command(IF HeartbeatTimedOut(vscodeHeartbeat, Head(redisQueue).now)
                        THEN "end-get-session" ELSE "poll-get-discord",
                        NoDoc, NoDoc, Head(redisQueue).now))
    /\ Step("poll-step")
    /\ UNCHANGED <<clock, store, polled, hub>>

\* endVSCodeSession, reply of GET session: the ended record is computed and sent with
\* SETEX; with no session stored markVSCodeOffline starts
PollEndGetSession ==
    /\ At("end-get-session")
    /\ SendNext(IF Has(vscodeSession)
                THEN Command("end-setex", NoDoc,
                             EndedSession(vscodeSession, "timeout", clock),
                             Head(redisQueue).now)
                ELSE Command("mark-get-status", NoDoc, NoDoc, Head(redisQueue).now))
    /\ Step("poll-step")
    /\ UNCHANGED <<clock, store, polled, hub>>

\* endVSCodeSession, the SETEX executes; markVSCodeOffline sends GET status
PollEndSetex ==
    /\ At("end-setex")
    /\ vscodeSession' = Head(redisQueue).statusUpdate
    /\ sessionExpiry' = clock + SESSION_HISTORY_TTL
    /\ SendNext(Command("mark-get-status", NoDoc, NoDoc, Head(redisQueue).now))
    /\ Step("poll-step")
    /\ UNCHANGED <<clock, discordKeys, vscodeActivity, vscodeStatus, vscodeHeartbeat,
                   rateLimit, polled, hub>>

\* markVSCodeOffline, reply of GET status; GET session is sent
PollMarkGetStatus ==
    /\ At("mark-get-status")
    /\ SendNext(Command("mark-get-session", NoDoc, vscodeStatus, Head(redisQueue).now))
    /\ Step("poll-step")
    /\ UNCHANGED <<clock, store, polled, hub>>

\* markVSCodeOffline, reply of GET session: statusUpdate is computed and sent with SET
PollMarkGetSession ==
    /\ At("mark-get-session")
    /\ SendNext(Command("mark-set", NoDoc,
                        <<MarkVSCodeOfflineUpdate(Head(redisQueue).statusUpdate,
                                                  vscodeSession, clock)>>,
                        Head(redisQueue).now))
    /\ Step("poll-step")
    /\ UNCHANGED <<clock, store, polled, hub>>

\* markVSCodeOffline, the SET executes; onVSCodeOfflineCallback broadcasts, and
\* checkHeartbeats sends GET discord:heartbeat
PollMarkSet ==
    /\ At("mark-set")
    /\ Room(1)
    /\ vscodeStatus' = Head(redisQueue).statusUpdate
    /\ inbox' = Written(OfflineMsgs(<<"vscode-offline">>))
    /\ SendNext(Command("poll-get-discord", NoDoc, NoDoc, Head(redisQueue).now))
    /\ Answer("poll-step", 0, "", <<"vscode-offline">>)
    /\ UNCHANGED <<clock, discordKeys, vscodeActivity, vscodeHeartbeat, vscodeSession,
                   sessionExpiry, rateLimit, polled, sseConnections, conn>>

\* reply of GET discord:heartbeat: the Discord branch, which is one chain of its own
\* commands when the mark is stale; here it ends the poll
PollGetDiscord ==
    /\ At("poll-get-discord")
    /\ ~HeartbeatTimedOut(discordHeartbeat, Head(redisQueue).now)
    /\ ChainEnds
    /\ Step("poll")
    /\ UNCHANGED <<clock, store, polled, hub>>

\* an authorized POST /vscode-activity with a JSON body: setVSCodeActivity sends GET
\* ratelimit:<sessionId>
UpdStart(body) ==
    /\ Has(body)
    /\ Len(redisQueue) < MaxInFlight
    /\ \A i \in 1..Len(redisQueue) : redisQueue[i].activity = NoDoc
    /\ redisQueue' = Append(redisQueue, Command("upd-get-ratelimit", body, NoDoc, 0))
    /\ Step("activity-issued")
    /\ UNCHANGED <<clock, store, polled, hub>>

\* reply of GET ratelimit: the rate-limit gate; getVSCodeActivity sends its three GETs
UpdGetRateLimit ==
    /\ At("upd-get-ratelimit")
    /\ LET activity == Head(redisQueue).activity
       IN  IF IsRateLimited(rateLimit[SessionKey(activity[1])], clock)
           THEN /\ ChainEnds
                /\ Answer("vscode-activity", 202, "RateLimited", <<>>)
           ELSE /\ SendNext(Command("upd-get-activity", activity, NoDoc, 0))
                /\ Step("activity-step")
    /\ UNCHANGED <<clock, store, polled, hub>>

\* reply of getVSCodeActivity: the dedup gate. A similar payload goes to
\* updateVSCodeHeartbeat, a TypeError to the catch of processVSCodeActivity, anything
\* else takes now and sends GET session
UpdGetActivity ==
    /\ At("upd-get-activity")
    /\ LET activity == Head(redisQueue).activity
           currentActivity == getVSCodeActivity
       IN  IF Has(currentActivity) /\ SimilarThrows(currentActivity[1].activity, activity[1])
           THEN /\ ChainEnds
                /\ Answer("vscode-activity", 400, "Invalid", <<>>)
           ELSE /\ SendNext(Command(IF /\ Has(currentActivity)
                                       /\ isSimilarVSCodeActivity(
                                             currentActivity[1].activity[1], activity[1])
                                    THEN "dup-set-heartbeat" ELSE "upd-get-session",
                                    activity, NoDoc, clock))
                /\ Step("activity-step")
    /\ UNCHANGED <<clock, store, polled, hub>>

\* reply of GET session: the new-session check; currentSession stays in a local
UpdGetSession ==
    /\ At("upd-get-session")
    /\ LET activity == Head(redisQueue).activity
           startNew == \/ ~Has(vscodeSession)
                       \/ vscodeSession[1].sessionId # SessionKey(activity[1])
                       \/ vscodeSession[1].status = "ended"
       IN  SendNext(Command(IF startNew THEN "upd-start-session" ELSE "upd-get-status",
                            activity, vscodeSession, Head(redisQueue).now))
    /\ Step("activity-step")
    /\ UNCHANGED <<clock, store, polled, hub>>

\* startVSCodeSession: its two SETs execute; GET status is sent
UpdStartSession ==
    /\ At("upd-start-session")
    /\ vscodeSession' = <<NewSession(SessionKey(Head(redisQueue).activity[1]), clock)>>
    /\ sessionExpiry' = 0
    /\ vscodeHeartbeat' = clock
    /\ SendNext([Head(redisQueue) EXCEPT !.kind = "upd-get-status"])
    /\ Step("activity-step")
    /\ UNCHANGED <<clock, discordKeys, vscodeActivity, vscodeStatus, rateLimit, polled, hub>>

\* reply of GET status: statusUpdate is computed from it and from currentSession, and
\* the pipeline is sent
UpdGetStatus ==
    /\ At("upd-get-status")
    /\ LET h == Head(redisQueue)
       IN  SendNext(Command("upd-pipeline", h.activity,
                            <<VSCodeStatusUpdate(vscodeStatus, h.statusUpdate,
                                                 SessionKey(h.activity[1]), h.now)>>,
                            h.now))
    /\ Step("activity-step")
    /\ UNCHANGED <<clock, store, polled, hub>>

\* the pipeline executes: payload, status and rate-limit marker are written;
\* updateVSCodeHeartbeat sends SET heartbeat
UpdPipeline ==
    /\ At("upd-pipeline")
    /\ LET h == Head(redisQueue)
       IN  /\ vscodeActivity' = h.activity
           /\ vscodeStatus' = h.statusUpdate
           /\ rateLimit' = [rateLimit EXCEPT ![SessionKey(h.activity[1])] = h.now]
           /\ SendNext(Command("upd-set-heartbeat", h.activity, NoDoc, h.now))
    /\ Step("activity-step")
    /\ UNCHANGED <<clock, discordKeys, vscodeHeartbeat, vscodeSession, sessionExpiry,
                   polled, hub>>

\* updateVSCodeHeartbeat: SET heartbeat executes, GET session is sent
UpdSetHeartbeat ==
    /\ At("upd-set-heartbeat") \/ At("dup-set-heartbeat")
    /\ vscodeHeartbeat' = clock
    /\ SendNext([Head(redisQueue) EXCEPT
                    !.kind = IF At("dup-set-heartbeat") THEN "dup-hb-get-session"
                             ELSE "upd-hb-get-session"])
    /\ Step("activity-step")
    /\ UNCHANGED <<clock, discordKeys, vscodeActivity, vscodeStatus, vscodeSession,
                   sessionExpiry, rateLimit, polled, hub>>

\* updateVSCodeHeartbeat, reply of GET session: the record read is sent back with
\* lastHeartbeat = now and status 'active'
UpdHbGetSession ==
    /\ At("upd-hb-get-session") \/ At("dup-hb-get-session")
    /\ SendNext([Head(redisQueue) EXCEPT
                    !.kind = IF At("dup-hb-get-session") THEN "dup-hb-set-session"
                             ELSE "upd-hb-set-session",
                    !.statusUpdate = HeartbeatSession(vscodeSession, clock)])
    /\ Step("activity-step")
    /\ UNCHANGED <<clock, store, polled, hub>>

\* updateVSCodeHeartbeat: the SET of the session executes when a session was read.
\* A deduplicated request is answered; an accepted one goes to broadcastVSCodeActivity,
\* which sends the three GETs of getVSCodeActivity
UpdHbSetSession ==
    /\ At("upd-hb-set-session") \/ At("dup-hb-set-session")
    /\ LET h == Head(redisQueue)
       IN  /\ vscodeSession' = IF Has(h.statusUpdate) THEN h.statusUpdate ELSE vscodeSession
           /\ sessionExpiry' = IF Has(h.statusUpdate) THEN 0 ELSE sessionExpiry
           /\ IF At("dup-hb-set-session")
              THEN /\ ChainEnds
                   /\ Answer("vscode-activity", 202, "NoChange", <<>>)
              ELSE /\ SendNext(Command("upd-broadcast", h.activity, NoDoc, h.now))
                   /\ Step("activity-step")
    /\ UNCHANGED <<clock, discordKeys, vscodeActivity, vscodeStatus, vscodeHeartbeat,
                   rateLimit, polled, hub>>

\* broadcastVSCodeActivity, reply of getVSCodeActivity: the broadcast loop and the answer
UpdBroadcast ==
    /\ At("upd-broadcast")
    /\ Room(1)
    /\ inbox' = Written(<<Msg("vscode-update",
                              IF Has(getVSCodeActivity) /\ Has(getVSCodeActivity[1].activity)
                              THEN getVSCodeActivity[1].activity[1].lineNumber ELSE 0, "")>>)
    /\ sseConnections' = Swept
    /\ ChainEnds
    /\ Answer("vscode-activity", 200, "", <<"vscode-update">>)
    /\ UNCHANGED <<clock, store, polled, conn>>

\* the editor's updates: payloads that have their workspace and editor objects
EditorUpdates(now) == {<<a>> : a \in WellFormedActivities(now)}

\* one editor update is stored at the first instant; at the first poll that finds its
\* mark stale a second update arrives while the poll is running, before it or after it
NextTimeoutRace ==
    \/ /\ clock = 1
       /\ EditorIdle
       /\ \E h \in Headers : \E body \in EditorUpdates(clock) :
             Authorized(h) /\ PostVSCodeActivity(h, body)
    \/ redisQueue = <<>> /\ clock < FirstLatePoll /\ Tick(FirstLatePoll)
    \/ PollStart
    \/ PollGetHeartbeat
    \/ PollEndGetSession
    \/ PollEndSetex
    \/ PollMarkGetStatus
    \/ PollMarkGetSession
    \/ PollMarkSet
    \/ PollGetDiscord
    \/ clock = FirstLatePoll /\ \E body \in EditorUpdates(clock) : UpdStart(body)
    \/ UpdGetRateLimit
    \/ UpdGetActivity
    \/ UpdGetSession
    \/ UpdStartSession
    \/ UpdGetStatus
    \/ UpdPipeline
    \/ UpdSetHeartbeat
    \/ UpdHbGetSession
    \/ UpdHbSetSession
    \/ UpdBroadcast

SpecTimeoutRace == Init /\ [][NextTimeoutRace]_vars

\* the same race with a store slow enough for Date.now() to move on while commands are
\* in flight (commandTimeout allows a command 5000 ms)
SlowReplyInstant == FirstLatePoll + 1

NextSlowStore ==
    \/ NextTimeoutRace
    \/ redisQueue # <<>> /\ Tick(SlowReplyInstant)

SpecSlowStore == Init /\ [][NextSlowStore]_vars

\* ------------------------------------- the retention window of an ended session
\* The heartbeat monitor runs every POLL_INTERVAL; the instants below hold every poll
\* from the first one that can find a stale mark to the first one after the retention
\* window of a session ended at that poll.
RetentionPolls == SESSION_HISTORY_TTL \div POLL_INTERVAL + 1
ExpiryInstants == {1, 2} \cup {FirstLatePoll + POLL_INTERVAL * k : k \in 0..RetentionPolls}
LastRequestInstant == 2

\* time passes to a later instant; no run of the monitor is skipped
TickExpiry(t) ==
    /\ \A p \in ExpiryInstants : (clock <= p /\ p < t /\ p % POLL_INTERVAL = 0)
                                      => (p = clock /\ polled)
    /\ Tick(t)

\* the editor sends its requests in the first seconds and is then silent while the
\* monitor keeps polling
NextExpiry ==
    \/ \E t \in ExpiryInstants : TickExpiry(t)
    \/ CheckHeartbeats
    \/ clock <= LastRequestInstant /\ \E h \in Headers : \E body \in ActivityBodies(h, clock) :
                       PostVSCodeActivity(h, body)
    \/ clock <= LastRequestInstant /\ \E h \in Headers : PostVSCodeCleanup(h)
    \/ clock <= LastRequestInstant /\ \E h \in Headers : PostVSCodeHeartbeat(h)
    \/ clock <= LastRequestInstant /\ \E h \in Headers : \E body \in SessionBodies(h) :
                       PostVSCodeSessionStart(h, body)

SpecExpiry == Init /\ [][NextExpiry]_vars

\* the same runs with one more instant, the one at which the rate-limit marker of the
\* last request has lived its TTL
MarkerExpiryInstant == LastRequestInstant + RATE_LIMIT_TTL

NextTTL ==
    \/ NextExpiry
    \/ clock <= LastRequestInstant /\ Tick(MarkerExpiryInstant)

SpecTTL == Init /\ [][NextTTL]_vars

\* ------------------------------------------------ sources that stay alive
\* both sources report at the first poll instant; the polls that follow find their marks
\* exactly HEARTBEAT_TIMEOUT old, then older, unless a heartbeat or an update comes
AliveInstants == {POLL_INTERVAL, POLL_INTERVAL + HEARTBEAT_TIMEOUT,
                  2 * POLL_INTERVAL + HEARTBEAT_TIMEOUT}

TickAlive(t) ==
    /\ \A p \in AliveInstants : (clock <= p /\ p < t) => (p = clock /\ polled)
    /\ Tick(t)

NextAlive ==
    \/ \E t \in AliveInstants : TickAlive(t)
    \/ CheckHeartbeats
    \/ clock > 1 /\ BroadcastDiscordActivity("online")
    \/ clock > 1 /\ \E h \in Headers : \E body \in StreamBodies(h, clock) :
                       PostVSCodeActivity(h, body)
    \/ clock > 1 /\ \E h \in Headers : PostVSCodeHeartbeat(h)
    \/ \E c \in HubConns : Subscribe(c)

SpecAlive == Init /\ [][NextAlive]_vars

\* ------------------------------------- checkHeartbeats with a failing store
\* the store commands of one tick that may be rejected (connection lost, command
\* timeout): the reads inside getVSCodeSession, getVSCodeStatus and getDiscordStatus are
\* caught there and read as null, the others throw into the catch of checkHeartbeats
PollFailures ==
    {"get-vscode-heartbeat", "end-get-session", "end-setex", "mark-get-status",
     "mark-get-session", "mark-set", "get-discord-heartbeat", "discord-get-status",
     "discord-set"}

\* one run of checkHeartbeats in which the command f is rejected if it is issued: what
\* it leaves in the store, the callbacks it calls, and whether f was issued at all
FailedPoll(f, now) ==
    LET vscodeOut == HeartbeatTimedOut(vscodeHeartbeat, now)
        discordOut == HeartbeatTimedOut(discordHeartbeat, now)
        thrown1 == f = "get-vscode-heartbeat"
        doEnd == ~thrown1 /\ vscodeOut
        endRead == IF f = "end-get-session" THEN NoDoc ELSE vscodeSession
        thrown2 == doEnd /\ Has(endRead) /\ f = "end-setex"
        doMark == doEnd /\ ~thrown2
        ended == IF doMark /\ Has(endRead)
                 THEN EndedSession(endRead, "timeout", now) ELSE vscodeSession
        statusRead == IF f = "mark-get-status" THEN NoDoc ELSE vscodeStatus
        sessionRead == IF f = "mark-get-session" THEN NoDoc ELSE ended
        thrown3 == doMark /\ f = "mark-set"
        vscodeDone == doMark /\ ~thrown3
        thrownVSCode == thrown1 \/ thrown2 \/ thrown3
        thrown4 == ~thrownVSCode /\ f = "get-discord-heartbeat"
        doDiscord == ~thrownVSCode /\ ~thrown4 /\ discordOut
        discordRead == IF f = "discord-get-status" THEN NoDoc ELSE discordStatus
        thrown5 == doDiscord /\ f = "discord-set"
        discordDone == doDiscord /\ ~thrown5
    IN  [issued |-> \/ thrownVSCode \/ thrown4 \/ thrown5
                    \/ doEnd /\ f = "end-get-session"
                    \/ doMark /\ f \in {"mark-get-status", "mark-get-session"}
                    \/ doDiscord /\ f = "discord-get-status",
         session |-> ended,
         expiry |-> IF doMark THEN EndedSessionExpiry(endRead, sessionExpiry, now)
                    ELSE sessionExpiry,
         vscodeStatus |-> IF vscodeDone
                          THEN <<MarkVSCodeOfflineUpdate(statusRead, sessionRead, now)>>
                          ELSE vscodeStatus,
         discordStatus |-> IF discordDone
                           THEN <<MarkDiscordOfflineUpdate(discordRead, now)>>
                           ELSE discordStatus,
         events |-> (IF vscodeDone THEN <<"vscode-offline">> ELSE <<>>)
                    \o (IF discordDone THEN <<"discord-offline">> ELSE <<>>)]

\* the setInterval callback of startHeartbeatMonitoring, in a tick in which the store
\* rejects the command f
CheckHeartbeatsFailing(f) ==
    /\ clock % POLL_INTERVAL = 0
    /\ ~polled
    /\ LET r == FailedPoll(f, clock)
       IN  /\ r.issued
           /\ Room(Len(r.events))
           /\ vscodeSession' = r.session
           /\ sessionExpiry' = r.expiry
           /\ vscodeStatus' = r.vscodeStatus
           /\ discordStatus' = r.discordStatus
           /\ inbox' = Written(OfflineMsgs(r.events))
           /\ Answer("poll-failed", 0, f, r.events)
    /\ polled' = TRUE
    /\ UNCHANGED <<clock, redisQueue, discordActivity, discordHeartbeat, vscodeActivity,
                   vscodeHeartbeat, rateLimit, sseConnections, conn>>

\* both sources report in the first seconds and are then silent while the monitor polls
FailureInstants == {LastRequestInstant, FirstLatePoll, FirstLatePoll + POLL_INTERVAL}

NextStoreFailure ==
    \/ \E t \in FailureInstants : Tick(t)
    \/ CheckHeartbeats
    \/ \E f \in PollFailures : CheckHeartbeatsFailing(f)
    \/ clock <= LastRequestInstant /\ BroadcastDiscordActivity("online")
    \/ clock <= LastRequestInstant /\ \E h \in Headers : \E body \in StreamBodies(h, clock) :
                       PostVSCodeActivity(h, body)
    \/ \E c \in HubConns : clock <= LastRequestInstant /\ Subscribe(c)
    \/ \E c \in HubConns : ReplayDiscord(c)
    \/ \E c \in HubConns : ReplayVSCode(c)

SpecStoreFailure == Init /\ [][NextStoreFailure]_vars

\* ------------------------------------------------------------- claims
Emitted(o, event) == \E i \in 1..Len(o.events) : o.events[i] = event

BothSet(statusData) ==
    Has(statusData) /\ statusData[1].online_since # 0 /\ statusData[1].offline_since # 0

\* C1 as claimed: after every setDiscordActivity and every accepted setVSCodeActivity
\* the stored status record does not have online_since and offline_since both set
C1_NeverBothSet ==
    /\ out.op = "discord-activity" => ~BothSet(discordStatus)
    /\ (out.op = "vscode-activity" /\ out.code = 200) => ~BothSet(vscodeStatus)

\* C1, amended: a source whose stored status is online has no offline_since; a
\* setDiscordActivity that brings the chat source online sets online_since to now and
\* clears offline_since; one that takes it offline sets offline_since to now and keeps
\* online_since; an accepted setVSCodeActivity leaves the editor status active with
\* online_since set and offline_since cleared
C1_Transitions ==
    [][/\ (Has(discordStatus') /\ discordStatus'[1].current_status # "offline")
            => discordStatus'[1].offline_since = 0
       /\ (Has(vscodeStatus') /\ vscodeStatus'[1].is_active)
            => vscodeStatus'[1].offline_since = 0
       /\ (/\ out'.op = "discord-activity"
           /\ Has(discordStatus)
           /\ discordStatus[1].current_status = "offline"
           /\ discordStatus'[1].current_status # "offline")
            => /\ discordStatus'[1].online_since = clock
               /\ discordStatus'[1].offline_since = 0
       /\ (/\ out'.op = "discord-activity"
           /\ Has(discordStatus)
           /\ discordStatus[1].current_status # "offline"
           /\ discordStatus'[1].current_status = "offline")
            => /\ discordStatus'[1].offline_since = clock
               /\ discordStatus'[1].online_since = discordStatus[1].online_since
       /\ (out'.op = "vscode-activity" /\ out'.code = 200)
            => /\ vscodeStatus'[1].is_active
               /\ vscodeStatus'[1].online_since # 0
               /\ vscodeStatus'[1].offline_since = 0]_vars

\* C1 witness: the chat source was online and a later setDiscordActivity took it
\* offline, so the record holds the old online_since next to the new offline_since
C1_Witness ==
    /\ out.op = "discord-activity"
    /\ discordStatus[1].current_status = "offline"
    /\ discordStatus[1].offline_since = clock
    /\ discordStatus[1].online_since # 0
    /\ discordStatus[1].online_since < clock

\* the stored status was last written by the offline-marking operation: setDiscordActivity
\* writes the heartbeat mark together with last_seen, markDiscordOffline writes no mark;
\* setVSCodeActivity always writes is_active = true
DiscordMarkedOffline ==
    /\ Has(discordStatus)
    /\ discordStatus[1].current_status = "offline"
    /\ discordStatus[1].last_seen # discordHeartbeat
VSCodeMarkedOffline ==
    /\ Has(vscodeStatus)
    /\ ~vscodeStatus[1].is_active

\* C2 as claimed: markDiscordOffline / markVSCodeOffline called on a source whose status
\* was last written by the same operation leaves the stored offline_since unchanged
C2_MarkOfflineIdempotent ==
    [][/\ (out'.op = "poll" /\ Emitted(out', "discord-offline") /\ DiscordMarkedOffline)
            => discordStatus'[1].offline_since = discordStatus[1].offline_since
       /\ (/\ out'.op \in {"poll", "vscode-cleanup"}
           /\ Emitted(out', "vscode-offline")
           /\ VSCodeMarkedOffline)
            => vscodeStatus'[1].offline_since = vscodeStatus[1].offline_since]_vars

\* C2 divergence: a source marked offline, and marked offline again at a later time,
\* holds the time of the second call as offline_since
C2_Witness ==
    /\ out.op = "poll"
    /\ Emitted(out, "discord-offline")
    /\ discordStatus[1].offline_since = clock
    /\ clock > discordHeartbeat + HEARTBEAT_TIMEOUT + POLL_INTERVAL

\* the source's timeout has already been handled: it is stored offline, with an
\* offline_since later than its (unchanged) heartbeat mark plus the timeout
DiscordTimedOutBefore ==
    /\ Has(discordStatus)
    /\ discordStatus[1].current_status = "offline"
    /\ discordHeartbeat # 0
    /\ discordStatus[1].offline_since > discordHeartbeat + HEARTBEAT_TIMEOUT
VSCodeTimedOutBefore ==
    /\ Has(vscodeStatus)
    /\ ~vscodeStatus[1].is_active
    /\ vscodeHeartbeat # 0
    /\ vscodeStatus[1].offline_since > vscodeHeartbeat + HEARTBEAT_TIMEOUT

\* C3 as claimed: once a timeout has taken a source offline and no heartbeat or activity
\* has arrived since, a later poll tick neither rewrites its status nor fires the
\* timeout event again
C3_TimeoutFiresOnce ==
    [][out'.op = "poll"
        => /\ DiscordTimedOutBefore
                => (discordStatus' = discordStatus /\ ~Emitted(out', "discord-offline"))
           /\ VSCodeTimedOutBefore
                => (vscodeStatus' = vscodeStatus /\ ~Emitted(out', "vscode-offline"))]_vars

\* C3 divergence: the editor source, already timed out, is reported offline by a later poll
C3_Witness ==
    /\ out.op = "poll"
    /\ Emitted(out, "vscode-offline")
    /\ vscodeHeartbeat # 0
    /\ clock > vscodeHeartbeat + HEARTBEAT_TIMEOUT + POLL_INTERVAL

\* the time at which the most recent accepted editor update was stored, when it was
\* for session s and the source has not been marked offline since; 0 otherwise
LastAcceptedAt(s) ==
    IF Has(vscodeStatus) /\ vscodeStatus[1].is_active /\ vscodeStatus[1].sessionId = s
    THEN vscodeStatus[1].last_seen
    ELSE 0

\* some session had an update accepted less than 2 s ago
RecentlyAccepted ==
    \E s \in RateLimitIds : LastAcceptedAt(s) # 0 /\ clock - LastAcceptedAt(s) < 2

\* C4: an authorized editor update for session s that arrives less than 2 s after an
\* accepted update for s is answered 202 "rate limited" and changes no stored key
C4_RateLimitWindow ==
    [][(out'.op = "vscode-activity" /\ RecentlyAccepted)
       => \A h \in Headers : \A body \in Bodies(clock) :
        (/\ Authorized(h)
         /\ Has(body)
         /\ LastAcceptedAt(SessionKey(body[1])) # 0
         /\ clock - LastAcceptedAt(SessionKey(body[1])) < 2
         /\ PostVSCodeActivity(h, body))
        => /\ out'.code = 202
           /\ out'.reason = "RateLimited"
           /\ out'.events = <<>>
           /\ store' = store]_vars

\* C4 witness: a content-changing update for the stored session, one second after the
\* accepted one, has been answered "rate limited"
C4_Witness ==
    /\ out.op = "vscode-activity"
    /\ out.code = 202
    /\ out.reason = "RateLimited"
    /\ Has(vscodeActivity)
    /\ LastAcceptedAt(vscodeActivity[1].sessionId) = clock - 1

\* the stored payload and the incoming one name the same workspace, file, line and
\* column, and their timestamps are less than 3 s apart
SameEdit(stored, incoming) ==
    /\ stored.ok /\ incoming.ok
    /\ stored.workspace = incoming.workspace
    /\ stored.fileName = incoming.fileName
    /\ stored.lineNumber = incoming.lineNumber
    /\ stored.columnNumber = incoming.columnNumber
    /\ stored.timestamp - incoming.timestamp < 3
    /\ incoming.timestamp - stored.timestamp < 3

\* C5 as claimed: an authorized update equal in workspace, file, line and column to the
\* stored one, with timestamps less than 3 s apart, is answered 202 "no meaningful
\* change", leaves the stored payload as it was and sets the heartbeat mark to now
C5_DuplicateIsNoChange ==
    [][out'.op = "vscode-activity" => \A h \in Headers : \A body \in Bodies(clock) :
        (/\ Authorized(h)
         /\ Has(body) /\ Has(vscodeActivity)
         /\ SameEdit(vscodeActivity[1], body[1])
         /\ PostVSCodeActivity(h, body))
        => /\ out'.code = 202
           /\ out'.reason = "NoChange"
           /\ vscodeActivity' = vscodeActivity
           /\ vscodeHeartbeat' = clock]_vars

\* C5, amended: such a duplicate is answered 202 and never replaces the stored payload;
\* when a rate-limit marker of its session is less than 2 s old the answer is "rate
\* limited" and no key changes, the heartbeat mark included; otherwise the answer is
\* "no meaningful change" and the heartbeat mark is set to now
C5_DuplicateUnlessRateLimited ==
    [][(out'.op = "vscode-activity" /\ Has(vscodeActivity))
       => \A body \in Bodies(clock) : \A h \in Headers :
        (/\ Has(body)
         /\ SameEdit(vscodeActivity[1], body[1])
         /\ Authorized(h)
         /\ PostVSCodeActivity(h, body))
        => /\ out'.code = 202
           /\ out'.events = <<>>
           /\ vscodeActivity' = vscodeActivity
           /\ LET marker == rateLimit[SessionKey(body[1])]
              IN  IF marker # 0 /\ clock - marker < 2
                  THEN out'.reason = "RateLimited" /\ store' = store
                  ELSE out'.reason = "NoChange" /\ vscodeHeartbeat' = clock]_vars

\* C5 witness: a duplicate that arrived 2 s after the stored update has been answered
\* "no meaningful change" and has moved the heartbeat mark
C5_Witness ==
    /\ out.op = "vscode-activity"
    /\ out.code = 202
    /\ out.reason = "NoChange"
    /\ vscodeHeartbeat = clock
    /\ vscodeActivity[1].timestamp = clock - 2

\* the duration getVSCodeActivity reports for the stored session in the next state
DurationAfter == SessionView(vscodeSession', clock')[1].duration
DurationBefore == SessionView(vscodeSession, clock)[1].duration

\* C8: ending the stored session manually at T2 makes the reported duration T2 minus
\* its start time; the duration of an ended session stays the same as time passes;
\* startVSCodeSession stores a session with the given id, the current time as start
\* time and no end time, whose duration counts from that start
C8_SessionDuration ==
    [][/\ (out'.op = "vscode-cleanup" /\ out'.code = 200 /\ Has(vscodeSession))
            => /\ Has(vscodeSession')
               /\ vscodeSession'[1].status = "ended"
               /\ vscodeSession'[1].startTime = vscodeSession[1].startTime
               /\ DurationAfter = clock - vscodeSession[1].startTime
       /\ (/\ out'.op = "tick"
           /\ Has(vscodeSession) /\ Has(vscodeSession')
           /\ vscodeSession[1].status = "ended")
            => DurationAfter = DurationBefore
       /\ (/\ out'.op = "tick"
           /\ Has(vscodeSession) /\ Has(vscodeSession')
           /\ vscodeSession[1].endTime = 0)
            => DurationAfter = clock' - vscodeSession[1].startTime
       /\ (out'.op = "vscode-session-start" /\ out'.code = 200)
            => \A h \in Headers : \A body \in SessionBodies(h) :
            (/\ Authorized(h) /\ Has(body)
             /\ PostVSCodeSessionStart(h, body))
            => /\ vscodeSession'[1].sessionId = body[1]
               /\ vscodeSession'[1].startTime = clock
               /\ vscodeSession'[1].endTime = 0
               /\ DurationAfter = 0]_vars

\* C8 witness: a session started earlier has been ended manually and reports the time
\* between its start and its end
C8_Witness ==
    /\ out.op = "vscode-cleanup"
    /\ out.code = 200
    /\ Has(vscodeSession)
    /\ vscodeSession[1].endTime = clock
    /\ vscodeSession[1].startTime < clock
    /\ getVSCodeActivity[1].session[1].duration = clock - vscodeSession[1].startTime

\* C8 witness of the second half: a session stored after an ended one has a new id and
\* a start time of its own
C8_WitnessRestart ==
    /\ out.op = "vscode-session-start"
    /\ out.code = 200
    /\ vscodeSession[1].startTime = clock
    /\ Has(vscodeStatus)
    /\ ~vscodeStatus[1].is_active
    /\ vscodeStatus[1].online_since # 0
    /\ vscodeStatus[1].online_since < vscodeStatus[1].offline_since
    /\ vscodeStatus[1].offline_since < clock

\* the credential of the header is missing or is not the configured key
NoOrWrongCredential(h) == h = <<>> \/ h[Len(h)] # ApiKey[1]

\* C9 as claimed: POST /vscode-activity answers 401 to a missing or wrong credential;
\* with the right one it answers 400 to a body that is not a payload (202 is let pass
\* here when such a body is turned away by the rate limit), and 200 or 202 to a
\* well-formed payload: 200 with the payload stored, 202 with the stored payload kept
\* and a reason of rate limiting or no meaningful change
C9_ActivityStatusCodes ==
    [][out'.op = "vscode-activity" => \A h \in Headers : \A body \in Bodies(clock) :
        PostVSCodeActivity(h, body)
        => /\ NoOrWrongCredential(h) => out'.code = 401
           /\ (Authorized(h) /\ (~Has(body) \/ ~body[1].ok)) => out'.code \in {400, 202}
           /\ (Authorized(h) /\ Has(body) /\ body[1].ok)
                => /\ out'.code \in {200, 202}
                   /\ out'.code = 200 => vscodeActivity' = body
                   /\ out'.code = 202 => /\ vscodeActivity' = vscodeActivity
                                          /\ out'.reason \in {"RateLimited", "NoChange"}]_vars

\* C9 divergence: a session is stored without an activity payload, and an authorized
\* update has just been answered 400 with nothing stored
C9_Witness ==
    /\ out.op = "vscode-activity"
    /\ out.code = 400
    /\ Has(vscodeSession)
    /\ ~Has(vscodeActivity)
    /\ vscodeSession[1].lastHeartbeat < clock

\* C10: a request to a protected endpoint whose credential is missing or wrong is
\* answered 401, changes no stored key and publishes nothing to subscribers: a step
\* is of that kind, or it is no step of such a request
C10_UnauthorizedNoEffect ==
    [][\/ out'.code = 401 /\ out'.events = <<>> /\ store' = store /\ hub' = hub
       \/ ~ \/ /\ out'.op = "vscode-activity"
               /\ \E body \in Bodies(clock) : \E h \in Headers :
                     NoOrWrongCredential(h) /\ PostVSCodeActivity(h, body)
            \/ /\ out'.op = "vscode-cleanup"
               /\ \E h \in Headers : NoOrWrongCredential(h) /\ PostVSCodeCleanup(h)
            \/ /\ out'.op = "vscode-heartbeat"
               /\ \E h \in Headers : NoOrWrongCredential(h) /\ PostVSCodeHeartbeat(h)
            \/ /\ out'.op = "vscode-session-start"
               /\ \E body \in {NoDoc} \cup {<<id>> : id \in SessionIds} :
                     \E h \in Headers :
                        NoOrWrongCredential(h) /\ PostVSCodeSessionStart(h, body)]_vars

\* C10 witness: with an editor payload stored and the source active, a cleanup request
\* has been answered 401 and the payload is still there
C10_Witness ==
    /\ out.op = "vscode-cleanup"
    /\ out.code = 401
    /\ Has(vscodeActivity)
    /\ vscodeStatus[1].is_active
    /\ vscodeHeartbeat # 0

\* a subscriber to GET /events whose replay has completed and who is still connected
Listening(c) == Open(c) /\ conn[c].replay = "done"

\* an authorized, well-formed update for session s1 at the given line
ScenarioBodies(line) ==
    {body \in Bodies(clock) : /\ Has(body) /\ body[1].ok
                              /\ body[1].sessionId = "s1" /\ body[1].lineNumber = line}

\* the payload stored for s1 is at line 10 and was accepted `age` seconds ago
StoredLine10(age) ==
    /\ Has(vscodeActivity)
    /\ vscodeActivity[1].sessionId = "s1"
    /\ vscodeActivity[1].lineNumber = 10
    /\ LastAcceptedAt("s1") = clock - age

\* the three requests of the scenario, the second answered 202 with the given reason:
\* line 10 on an empty store is accepted and published; line 10 again one second later
\* is rejected and nothing is published; line 50 six seconds after the first is
\* accepted and published
Scenario(reason) ==
    \A h \in Headers : \A c \in Conns : (Authorized(h) /\ Listening(c)) =>
        /\ \A body \in ScenarioBodies(10) :
              (EditorIdle /\ PostVSCodeActivity(h, body))
                => /\ out'.code = 200
                   /\ inbox'[c] = Append(inbox[c], Msg("vscode-update", 10, ""))
        /\ \A body \in ScenarioBodies(10) :
              (StoredLine10(1) /\ PostVSCodeActivity(h, body))
                => /\ out'.code = 202
                   /\ out'.reason = reason
                   /\ inbox'[c] = inbox[c]
        /\ \A body \in ScenarioBodies(50) :
              (StoredLine10(6) /\ PostVSCodeActivity(h, body))
                => /\ out'.code = 200
                   /\ inbox'[c] = Append(inbox[c], Msg("vscode-update", 50, ""))

ReplayPending(c) ==
    \/ conn[c].replay = "discord" /\ (Has(getDiscordActivity) \/ Has(getVSCodeActivity))
    \/ conn[c].replay = "vscode" /\ Has(getVSCodeActivity)

\* C7 as claimed: while a subscriber's replay of stored records is pending, nothing but
\* the replay itself writes to that subscriber
C7_ReplayBeforeLive ==
    [][\A c \in Conns :
        (ReplayPending(c) /\ conn'[c].replay = conn[c].replay) => inbox'[c] = inbox[c]]_vars

\* C7 divergence: a subscriber whose replay has not started holds a live event
C7_Witness ==
    \E c \in Conns :
        /\ Open(c)
        /\ conn[c].replay = "discord"
        /\ out.op \in {"discord-activity", "vscode-activity"}
        /\ Len(out.events) = 1
        /\ inbox[c] = <<Msg(out.events[1], inbox[c][1].line, inbox[c][1].status)>>

\* C11 as claimed: a POST /vscode-activity answered 400 leaves the activity payload,
\* the status record, the session record, the heartbeat mark and the rate-limit markers
\* as they were and publishes no vscode-update
C11_BadRequestNoEffect ==
    [][(out'.op = "vscode-activity" /\ out'.code = 400)
        => /\ vscodeKeys' = vscodeKeys
           /\ out'.events = <<>>
           /\ inbox' = inbox]_vars

\* C11 divergence: a request has been answered 400 and its payload, which has no
\* workspace and no editor object, is the stored activity, with a fresh rate-limit marker
C11_Witness ==
    /\ out.op = "vscode-activity"
    /\ out.code = 400
    /\ Has(vscodeActivity)
    /\ ~vscodeActivity[1].ok
    /\ vscodeActivity[1].timestamp = clock
    /\ rateLimit[SessionKey(vscodeActivity[1])] = clock
    /\ vscodeHeartbeat = clock

\* the three fields of a status record the claim compares
Lifecycle(statusData) ==
    IF Has(statusData)
    THEN <<statusData[1].current_status, statusData[1].online_since,
           statusData[1].offline_since>>
    ELSE <<>>

\* C12 as claimed: each setDiscordActivity call reads and writes as one atomic unit, in
\* receipt order: the status record a call writes is the one computed from the record
\* stored when it writes, i.e. the result of running the earlier calls to completion
C12_AtomicReadThenWrite ==
    [][out'.op = "discord-write"
        => Lifecycle(discordStatus') =
           Lifecycle(<<DiscordStatusUpdate(discordStatus,
                                           Head(redisQueue).activity.status,
                                           Head(redisQueue).now)>>)]_vars

\* C12 divergence: call A (online) has been written and then call B (offline), issued
\* before A was written, has overwritten it with a record computed from the empty
\* store: offline with no online_since
C12_Witness ==
    /\ out.op = "discord-write"
    /\ Len(redisQueue) = 2
    /\ redisQueue[1].kind = "get" /\ redisQueue[1].activity.status = "online"
    /\ redisQueue[2].kind = "get" /\ redisQueue[2].activity.status = "offline"
    /\ discordStatus[1].current_status = "offline"
    /\ discordStatus[1].online_since = 0

\* C13 as claimed: with a session record stored and no activity payload, a well-formed
\* authorized update that is not inside the rate-limit window of its session is
\* stored, answered 200 and published as vscode-update
C13_FirstActivityOfSession ==
    [][(out'.op = "vscode-activity" /\ Has(vscodeSession) /\ ~Has(vscodeActivity))
       => \A body \in Bodies(clock) : \A h \in Headers :
            (/\ Has(body) /\ body[1].ok
             /\ ~(rateLimit[SessionKey(body[1])] # 0
                   /\ clock - rateLimit[SessionKey(body[1])] < 2)
             /\ Authorized(h)
             /\ PostVSCodeActivity(h, body))
            => /\ out'.code = 200
               /\ vscodeActivity' = body
               /\ Emitted(out', "vscode-update")]_vars

\* C13 divergence: an ended session is retained after a cleanup, no payload is stored,
\* and a later update has been answered 400 and not stored
C13_Witness ==
    /\ out.op = "vscode-activity"
    /\ out.code = 400
    /\ Has(vscodeSession)
    /\ vscodeSession[1].status = "ended"
    /\ vscodeSession[1].endReason = "manual"
    /\ vscodeSession[1].endTime < clock
    /\ ~Has(vscodeActivity)

C15_EndedSessionReadOnly ==
    [][(/\ out'.op \in {"poll", "vscode-heartbeat"}
        /\ Has(vscodeSession)
        /\ vscodeSession[1].status = "ended"
        /\ Has(vscodeSession')
        /\ \A id \in SessionIds : vscodeSession' # <<NewSession(id, clock')>>)
        => /\ vscodeSession'[1].endTime = vscodeSession[1].endTime
           /\ vscodeSession'[1].endReason = vscodeSession[1].endReason
           /\ vscodeSession'[1].startTime = vscodeSession[1].startTime]_vars

\* C15 divergence: a poll has ended, with the time of the poll, a session that was
\* already ended by an earlier poll
C15_Witness ==
    /\ out.op = "poll"
    /\ Has(vscodeSession)
    /\ vscodeSession[1].status = "ended"
    /\ vscodeSession[1].endReason = "timeout"
    /\ vscodeSession[1].endTime = clock
    /\ vscodeHeartbeat # 0
    /\ clock > vscodeHeartbeat + HEARTBEAT_TIMEOUT + POLL_INTERVAL

\* C16 as claimed: an ended session is gone once its 300 s retention has elapsed.
\* A manual end deletes the heartbeat mark and the record is gone 300 s after endTime;
\* a timeout ends the session at the first poll that finds the mark older than 30 s,
\* at most 30 + 5 s after the mark, and the record is gone 300 s after that poll.
\* A start, an activity or a heartbeat would have renewed the mark.
C16_EndedSessionExpires ==
    (Has(vscodeSession) /\ vscodeSession[1].status = "ended")
        => IF vscodeHeartbeat = 0
           THEN clock < vscodeSession[1].endTime + 300
           ELSE clock < vscodeHeartbeat + 30 + 5 + 300

\* C16 divergence: a session that timed out is still stored, ended, at a poll more
\* than 300 s after the poll that first ended it
C16_Witness ==
    /\ out.op = "poll"
    /\ Has(vscodeSession)
    /\ vscodeSession[1].status = "ended"
    /\ vscodeSession[1].endReason = "timeout"
    /\ vscodeHeartbeat # 0
    /\ clock >= vscodeHeartbeat + HEARTBEAT_TIMEOUT + POLL_INTERVAL + SESSION_HISTORY_TTL

\* a session ended by /vscode-cleanup is gone 300 s after its endTime
C16_ManualEndExpires ==
    (Has(vscodeSession) /\ vscodeSession[1].status = "ended" /\ vscodeHeartbeat = 0)
        => clock < vscodeSession[1].endTime + SESSION_HISTORY_TTL

\* a manually ended session has expired: the record is gone, the status written at
\* the manual end is still stored
C16_ManualExpired ==
    /\ ~Has(vscodeSession)
    /\ Has(vscodeStatus)
    /\ ~vscodeStatus[1].is_active
    /\ vscodeHeartbeat = 0
    /\ vscodeStatus[1].sessionId # ""
    /\ clock >= vscodeStatus[1].offline_since + SESSION_HISTORY_TTL

C17_WitnessByActivity ==
    /\ out.op = "vscode-activity"
    /\ out.code = 200
    /\ vscodeSession = <<NewSession("s2", clock)>>
    /\ Has(vscodeStatus)
    /\ vscodeStatus[1].sessionId = "s2"
    /\ vscodeStatus[1].online_since # 0
    /\ vscodeStatus[1].online_since < clock

\* C18: an answered heartbeat, or an accepted activity update carrying the stored
\* sessionId, arriving while the stored session is active, sets the session's
\* lastHeartbeat to the time of the request, leaves it active and leaves its startTime
\* and sessionId as they were
C18_HeartbeatKeepsSession ==
    [][(/\ Has(vscodeSession)
        /\ vscodeSession[1].status = "active"
        /\ \/ out'.op = "vscode-heartbeat" /\ out'.code = 200
           \/ /\ out'.op = "vscode-activity"
              /\ out'.code = 200
              /\ SessionKey(vscodeActivity'[1]) = vscodeSession[1].sessionId)
        => /\ Has(vscodeSession')
           /\ vscodeSession'[1].lastHeartbeat = clock
           /\ vscodeSession'[1].status = "active"
           /\ vscodeSession'[1].startTime = vscodeSession[1].startTime
           /\ vscodeSession'[1].sessionId = vscodeSession[1].sessionId
           /\ vscodeSession'[1].endTime = vscodeSession[1].endTime]_vars

\* C18 witness: a heartbeat has refreshed an active session that started earlier
C18_Witness ==
    /\ out.op = "vscode-heartbeat"
    /\ out.code = 200
    /\ Has(vscodeSession)
    /\ vscodeSession[1].status = "active"
    /\ vscodeSession[1].endTime = 0
    /\ vscodeSession[1].lastHeartbeat = clock
    /\ vscodeSession[1].startTime < clock

\* C18 second witness: an accepted activity update has refreshed the active session
\* it belongs to, started earlier
C18_WitnessByActivity ==
    /\ out.op = "vscode-activity"
    /\ out.code = 200
    /\ Has(vscodeSession)
    /\ vscodeSession[1].status = "active"
    /\ vscodeSession[1].sessionId = vscodeActivity[1].sessionId
    /\ vscodeSession[1].lastHeartbeat = clock
    /\ vscodeSession[1].startTime < clock

\* C19 as claimed: a well-formed authorized activity update that is not rate limited
\* and carries a sessionId other than the stored session's, or finds no session or
\* an ended one, leaves an active session with its sessionId stored, whatever its
\* content
C19_FreshSessionIdStartsSession ==
    [][out'.op = "vscode-activity"
        => \A body \in Bodies(clock) : \A h \in Headers :
              (/\ Has(body)
               /\ body[1].ok
               /\ \/ ~Has(vscodeSession)
                  \/ vscodeSession[1].sessionId # body[1].sessionId
                  \/ vscodeSession[1].status = "ended"
               /\ ~(/\ rateLimit[SessionKey(body[1])] # 0
                    /\ clock - rateLimit[SessionKey(body[1])] < 2)
               /\ Authorized(h)
               /\ PostVSCodeActivity(h, body))
              => /\ Has(vscodeSession')
                 /\ vscodeSession'[1].sessionId = body[1].sessionId
                 /\ vscodeSession'[1].status = "active"]_vars

\* C19 divergence: an update was answered "no meaningful change" while session s1 is
\* stored and s1 itself is inside its rate-limit window (an update of s1 would have
\* been answered "rate limited"): the update came from s2, and s1 is still the session
C19_Witness ==
    /\ out.op = "vscode-activity"
    /\ out.code = 202
    /\ out.reason = "NoChange"
    /\ rateLimit["s1"] # 0
    /\ clock - rateLimit["s1"] < RATE_LIMIT_COOLDOWN
    /\ rateLimit["s2"] = 0
    /\ Has(vscodeSession)
    /\ vscodeSession[1].sessionId = "s1"
    /\ vscodeSession[1].lastHeartbeat = clock

\* the request of this step passed both gates and its payload was written: the
\* pipeline that stores the payload is the only writer of a rate-limit marker
StoredNow == rateLimit' # rateLimit

\* the broadcast of this step: one vscode-update more for every open subscriber
BroadcastNow ==
    /\ out'.events = <<"vscode-update">>
    /\ \A c \in Conns : Open(c) =>
          /\ Len(inbox'[c]) = Len(inbox[c]) + 1
          /\ SubSeq(inbox'[c], 1, Len(inbox[c])) = inbox[c]
          /\ inbox'[c][Len(inbox'[c])].event = "vscode-update"

\* C20 as claimed: an editor-activity request is followed by one vscode-update to every
\* open subscriber exactly when it passed both gates and was stored; otherwise nothing
\* is written to any subscriber, and a rate-limited or deduplicated request is answered
\* 202 with its reason
C20_BroadcastIffStored ==
    [][out'.op = "vscode-activity"
        => /\ StoredNow => BroadcastNow
           /\ ~StoredNow => (inbox' = inbox /\ out'.events = <<>>)
           /\ out'.reason \in {"RateLimited", "NoChange"}
                => (out'.code = 202 /\ ~StoredNow)]_vars

\* C20 divergence: a subscriber whose replay is done has received nothing, the request
\* was answered 400, and its payload passed both gates and is stored
C20_Witness ==
    /\ out.op = "vscode-activity"
    /\ out.code = 400
    /\ out.events = <<>>
    /\ Has(vscodeActivity)
    /\ vscodeActivity[1].timestamp = clock
    /\ rateLimit[SessionKey(vscodeActivity[1])] = clock
    /\ \E c \in Conns : Listening(c) /\ inbox[c] = <<>>

\* the same for requests whose stored payload has its workspace and editor objects
C20_WellFormedBroadcastIffStored ==
    [][out'.op = "vscode-activity"
        => /\ (StoredNow /\ vscodeActivity'[1].ok) => BroadcastNow
           /\ ~StoredNow => (inbox' = inbox /\ out'.events = <<>>)
           /\ out'.reason \in {"RateLimited", "NoChange"}
                => (out'.code = 202 /\ ~StoredNow)]_vars

C21_WitnessAfterCooldown ==
    /\ out.op = "vscode-activity"
    /\ out.code = 200
    /\ Has(vscodeActivity)
    /\ vscodeActivity[1].sessionId = "s1"
    /\ Has(vscodeSession)
    /\ vscodeSession[1].sessionId = "s1"
    /\ vscodeSession[1].startTime = clock - 2
    /\ vscodeStatus[1].online_since = clock - 2
    /\ rateLimit["s1"] = clock
    /\ rateLimit["s2"] = 0

\* the editor is online on an active session, all as of now
OnlineAsOfNow ==
    /\ Has(vscodeStatus)
    /\ vscodeStatus[1].is_active
    /\ vscodeStatus[1].last_seen = clock
    /\ vscodeStatus[1].offline_since = 0
    /\ Has(vscodeSession)
    /\ vscodeSession[1].status = "active"
    /\ vscodeSession[1].lastHeartbeat = clock
    /\ vscodeHeartbeat = clock

\* the poll of this instant and an update stored at this instant have both run to
\* their end
RaceOver ==
    /\ clock = FirstLatePoll
    /\ polled
    /\ redisQueue = <<>>
    /\ Has(vscodeStatus)
    /\ vscodeStatus[1].last_seen = clock
    /\ \E s \in RateLimitIds : rateLimit[s] = clock

\* what both serial orders give: setVSCodeActivity run on its own leaves the editor
\* online as of now, whether or not the timeout was applied before it, and a poll
\* that runs after it finds a fresh mark and changes nothing
C22_SerialOutcome ==
    [][/\ (out'.op = "vscode-activity" /\ out'.code = 200)
            => (OnlineAsOfNow)'
       /\ (out'.op = "poll" /\ OnlineAsOfNow)
            => (vscodeKeys' = vscodeKeys /\ out'.events = <<>>)]_vars

\* C22 as claimed: when a poll that times the editor out and an update stored at the
\* same instant have both finished, however their commands were interleaved, the
\* status record, the session record and the heartbeat mark are those of a serial
\* order: the editor is online as of now
C22_RaceIsSerial == RaceOver => OnlineAsOfNow

\* C22 divergence: both have finished; the status says offline since now, the session
\* record says active yet carries the endTime and endReason of the timeout, and the
\* heartbeat mark is fresh
C22_Witness ==
    /\ RaceOver
    /\ ~vscodeStatus[1].is_active
    /\ vscodeStatus[1].offline_since = clock
    /\ vscodeSession[1].status = "active"
    /\ vscodeSession[1].endTime = clock
    /\ vscodeSession[1].endReason = "timeout"
    /\ vscodeHeartbeat = clock

\* the step ran markVSCodeOffline / markDiscordOffline
MarksVSCodeOffline ==
    \/ out'.op = "poll" /\ Emitted(out', "vscode-offline")
    \/ out'.op = "vscode-cleanup" /\ out'.code = 200
MarksDiscordOffline == out'.op = "poll" /\ Emitted(out', "discord-offline")

\* C23 as claimed: markVSCodeOffline and markDiscordOffline write offline_since = now
\* and the inactive flag, and the online_since they write is the one that was stored
C23_MarkOfflineKeepsOnlineSince ==
    [][/\ MarksVSCodeOffline
            => /\ ~vscodeStatus'[1].is_active
               /\ vscodeStatus'[1].offline_since = clock
               /\ Has(vscodeStatus)
                    => vscodeStatus'[1].online_since = vscodeStatus[1].online_since
       /\ MarksDiscordOffline
            => /\ discordStatus'[1].current_status = "offline"
               /\ discordStatus'[1].offline_since = clock
               /\ Has(discordStatus)
                    => discordStatus'[1].online_since = discordStatus[1].online_since]_vars

\* C23 divergence: the timeout has marked the editor offline and the online_since it
\* wrote is the startTime of a session that began after the stored payload, and so
\* after the status record that held the earlier online_since, was written
C23_Witness ==
    /\ out.op = "poll"
    /\ Emitted(out, "vscode-offline")
    /\ ~vscodeStatus[1].is_active
    /\ vscodeStatus[1].offline_since = clock
    /\ Has(vscodeSession)
    /\ Has(vscodeActivity)
    /\ vscodeActivity[1].timestamp < vscodeSession[1].startTime
    /\ vscodeStatus[1].online_since = vscodeSession[1].startTime

\* the Discord half of C23, and the editor half when the stored online_since is the
\* session's startTime
C23_MarkOfflineKeepsOnlineSinceOfSession ==
    [][/\ MarksVSCodeOffline
            => /\ ~vscodeStatus'[1].is_active
               /\ vscodeStatus'[1].offline_since = clock
               /\ (/\ Has(vscodeStatus)
                    /\ (Has(vscodeSession)
                          => vscodeSession[1].startTime = vscodeStatus[1].online_since))
                    => vscodeStatus'[1].online_since = vscodeStatus[1].online_since
       /\ MarksDiscordOffline
            => /\ discordStatus'[1].current_status = "offline"
               /\ discordStatus'[1].offline_since = clock
               /\ Has(discordStatus)
                    => discordStatus'[1].online_since = discordStatus[1].online_since]_vars

\* the step is a pass of broadcastDiscordActivity or broadcastVSCodeActivity
SweepingPass ==
    \/ out'.op = "discord-activity"
    \/ out'.op = "vscode-activity" /\ out'.code = 200

C24_NoAbortedSubscriber == \A c \in sseConnections : ~conn[c].aborted

\* C25: a closed stream leaves sseConnections exactly once, at the step that first
\* detects the closure: the step at which a connection becomes aborted takes its
\* response out of the set, a response leaves the set at no other step, and a response
\* whose connection is aborted is never in the set again
C25_RemovedOnceAtDetection ==
    [][\A c \in Conns :
          /\ (~conn[c].aborted /\ conn'[c].aborted)
                => (c \in sseConnections /\ c \notin sseConnections')
          /\ (c \in sseConnections /\ c \notin sseConnections')
                => (~conn[c].aborted /\ conn'[c].aborted)
          /\ conn[c].aborted => (conn'[c].aborted /\ c \notin sseConnections')]_vars

\* C25 witness: c1 closed and was removed while c2 stayed; since then its keepalive instant
\* has passed and a publish pass has run over the set
C25_Witness ==
    /\ conn["c1"].aborted
    /\ sseConnections = {"c2"}
    /\ clock >= conn["c1"].due
    /\ out.op = "discord-activity"
    /\ Len(inbox["c2"]) > Len(inbox["c1"])

C26_WitnessLivePass ==
    /\ conn["c1"].aborted
    /\ conn["c1"].replay = "discord"
    /\ inbox["c1"] = <<>>
    /\ Open("c2")
    /\ \E i \in 1..Len(inbox["c2"]) : inbox["c2"][i].event = "vscode-offline"

C27_WitnessBoth ==
    /\ out.op = "vscode-activity"
    /\ out.code = 200
    /\ \A c \in Conns :
          /\ Open(c)
          /\ conn[c].replay = "discord"
          /\ Len(inbox[c]) = 1
          /\ inbox[c][1].event = "vscode-update"

\* C28: a response whose connection is still open after a step is still in
\* sseConnections after it, whatever the step was: a request with any answer, a poll, a
\* broadcast, a replay, a keepalive, or the abort of another connection
C28_OnlyOwnAbortRemoves ==
    [][\A c \in sseConnections : ~conn'[c].aborted => c \in sseConnections']_vars

\* C28 witness: c1 has just aborted and c2, which has received a live update, is still
\* subscribed
C28_Witness ==
    /\ out.op = "aborted"
    /\ conn["c1"].aborted
    /\ Open("c2")
    /\ \E i \in 1..Len(inbox["c2"]) : inbox["c2"][i].event = "vscode-update"

\* C28 witness: a rejected request leaves both subscribers in the set
C28_WitnessRejected ==
    /\ out.op = "vscode-activity"
    /\ out.code = 400
    /\ sseConnections = {"c1", "c2"}

\* C28 witness: an unauthorised request leaves both subscribers in the set
C28_WitnessUnauthorized ==
    /\ out.code = 401
    /\ sseConnections = {"c1", "c2"}

\* C28 witness: a poll that publishes a timeout leaves both subscribers in the set
C28_WitnessPoll ==
    /\ out.op = "poll"
    /\ out.events # <<>>
    /\ sseConnections = {"c1", "c2"}

\* the tick applies the VSCode timeout in full: the stored session is ended, the status
\* is offline as of now, and the offline callback publishes vscode-offline
VSCodeTimeoutApplied ==
    /\ Has(vscodeStatus')
    /\ ~vscodeStatus'[1].is_active
    /\ vscodeStatus'[1].offline_since = clock
    /\ Has(vscodeSession) => /\ Has(vscodeSession')
                              /\ vscodeSession'[1].status = "ended"
                              /\ vscodeSession'[1].endTime = clock
    /\ Emitted(out', "vscode-offline")
    /\ \A c \in Conns : Open(c) => \E i \in (Len(inbox[c]) + 1)..Len(inbox'[c]) :
                                       inbox'[c][i].event = "vscode-offline"

\* the tick applies the Discord timeout in full
DiscordTimeoutApplied ==
    /\ Has(discordStatus')
    /\ discordStatus'[1].current_status = "offline"
    /\ discordStatus'[1].offline_since = clock
    /\ Emitted(out', "discord-offline")
    /\ \A c \in Conns : Open(c) => \E i \in (Len(inbox[c]) + 1)..Len(inbox'[c]) :
                                       inbox'[c][i].event = "discord-offline"

\* C29: a tick of checkHeartbeats in which a store command fails ends normally, with the
\* timer armed for the next tick and both heartbeat keys as they were, so that every
\* timeout pending in it is still pending; and every tick in which the store responds
\* applies in full each timeout pending at that tick, whatever the failed ticks before
\* it left behind
C29_PollSurvivesStoreFailure ==
    [][/\ out'.op = "poll-failed"
            => /\ polled'
               /\ clock' = clock
               /\ vscodeHeartbeat' = vscodeHeartbeat
               /\ discordHeartbeat' = discordHeartbeat
       /\ out'.op = "poll"
            => /\ HeartbeatTimedOut(vscodeHeartbeat, clock) => VSCodeTimeoutApplied
               /\ HeartbeatTimedOut(discordHeartbeat, clock) => DiscordTimeoutApplied]_vars

\* C29 witness: both sources were silent at the 35 s tick, which failed before any
\* callback (the subscriber, connected since the first seconds, got nothing from it);
\* the 40 s tick has applied both timeouts and published both offline events
C29_Witness ==
    /\ clock = FirstLatePoll + POLL_INTERVAL
    /\ out.op = "poll"
    /\ out.events = <<"vscode-offline", "discord-offline">>
    /\ Open("c1")
    /\ conn["c1"].due <= LastRequestInstant + KEEPALIVE_INTERVAL
    /\ conn["c1"].replay = "discord"
    /\ inbox["c1"] = OfflineMsgs(<<"vscode-offline", "discord-offline">>)
    /\ vscodeStatus[1].offline_since = clock
    /\ discordStatus[1].offline_since = clock
    /\ vscodeSession[1].endTime = clock

\* C29: a tick that failed between endVSCodeSession and the write of markVSCodeOffline
\* has ended the session and left the status active
C29_WitnessPartial ==
    /\ out.op = "poll-failed"
    /\ out.reason = "mark-set"
    /\ vscodeSession[1].status = "ended"
    /\ vscodeStatus[1].is_active

\* C29: a tick whose VSCode half failed has not looked at the Discord heartbeat, which
\* had timed out as well
C29_WitnessDiscordSkipped ==
    /\ out.op = "poll-failed"
    /\ out.reason = "get-vscode-heartbeat"
    /\ HeartbeatTimedOut(discordHeartbeat, clock)
    /\ discordStatus[1].current_status = "online"

\* C30 as claimed: getVSCodeActivity returns null only when neither an activity payload
\* nor a session record is stored; with a session record and no status record it
\* returns the session's startTime and endTime as online_since and offline_since; with
\* a status record it returns the status record's online_since and offline_since
C30_GetVSCodeActivity ==
    LET r == getVSCodeActivity
    IN  /\ ~Has(r) => (~Has(vscodeActivity) /\ ~Has(vscodeSession))
        /\ (Has(vscodeSession) /\ ~Has(vscodeStatus))
              => /\ Has(r)
                 /\ r[1].online_since = vscodeSession[1].startTime
                 /\ r[1].offline_since = vscodeSession[1].endTime
        /\ (Has(r) /\ Has(vscodeStatus))
              => /\ r[1].online_since = vscodeStatus[1].online_since
                 /\ r[1].offline_since = vscodeStatus[1].offline_since

\* C30 witness: an update has just been stored and broadcast from getVSCodeActivity; the
\* stored status is active with no offline_since, the stored session still carries the
\* endTime of its timeout, and getVSCodeActivity returns that endTime as offline_since
C30_Witness ==
    /\ out.op = "vscode-activity"
    /\ out.code = 200
    /\ Has(vscodeStatus)
    /\ vscodeStatus[1].is_active
    /\ vscodeStatus[1].offline_since = 0
    /\ Has(vscodeSession)
    /\ vscodeSession[1].endTime # 0
    /\ getVSCodeActivity[1].offline_since = vscodeSession[1].endTime

\* C30: a status stored without online_since (markVSCodeOffline on an empty store) and a
\* session started afterwards: getVSCodeActivity returns the session's startTime
C30_WitnessOnlineSince ==
    /\ Has(vscodeStatus)
    /\ vscodeStatus[1].online_since = 0
    /\ Has(vscodeSession)
    /\ getVSCodeActivity[1].online_since = vscodeSession[1].startTime

\* C30 without the part that fails: null only when neither payload nor session is
\* stored, the session's times when no status is stored, and each field of a stored
\* status that is set is the one returned
C30_SetStatusFieldsReturned ==
    LET r == getVSCodeActivity
    IN  /\ ~Has(r) => (~Has(vscodeActivity) /\ ~Has(vscodeSession))
        /\ (Has(vscodeSession) /\ ~Has(vscodeStatus))
              => /\ Has(r)
                 /\ r[1].online_since = vscodeSession[1].startTime
                 /\ r[1].offline_since = vscodeSession[1].endTime
        /\ (Has(r) /\ Has(vscodeStatus))
              => /\ vscodeStatus[1].online_since # 0
                      => r[1].online_since = vscodeStatus[1].online_since
                 /\ vscodeStatus[1].offline_since # 0
                      => r[1].offline_since = vscodeStatus[1].offline_since

\* C31 as claimed: the last_seen stored for a source never decreases, and neither does
\* the last_seen that getDiscordActivity / getVSCodeActivity return
C31_LastSeenNeverDecreases ==
    [][/\ (Has(discordStatus) /\ Has(discordStatus'))
             => discordStatus'[1].last_seen >= discordStatus[1].last_seen
       /\ (Has(vscodeStatus) /\ Has(vscodeStatus'))
             => vscodeStatus'[1].last_seen >= vscodeStatus[1].last_seen
       /\ (Has(getDiscordActivity) /\ Has(getDiscordActivity'))
             => getDiscordActivity'[1].last_seen >= getDiscordActivity[1].last_seen
       /\ (Has(getVSCodeActivity) /\ Has(getVSCodeActivity'))
             => getVSCodeActivity'[1].last_seen >= getVSCodeActivity[1].last_seen]_vars

\* C31 witness: markVSCodeOffline has written last_seen with the Date.now() it took after
\* its reads, and the pipeline of an update that took its now before that is the next
\* command to execute
C31_Witness ==
    /\ At("upd-pipeline")
    /\ Has(vscodeStatus)
    /\ ~vscodeStatus[1].is_active
    /\ vscodeStatus[1].last_seen > Head(redisQueue).now
    /\ Head(redisQueue).statusUpdate[1].last_seen = Head(redisQueue).now

\* C32 as claimed: a key written with a TTL is still stored 30 s after it was written,
\* and a session record whose status is active carries no TTL
C32_AllTTLsExceedTimeout ==
    [][/\ \A s \in RateLimitIds :
             (rateLimit[s] # 0 /\ clock' <= rateLimit[s] + HEARTBEAT_TIMEOUT)
                => rateLimit'[s] # 0
       /\ (Has(vscodeSession) /\ vscodeSession[1].status = "ended"
              /\ clock' <= vscodeSession[1].endTime + HEARTBEAT_TIMEOUT)
             => Has(vscodeSession')
       /\ (Has(vscodeSession) /\ vscodeSession[1].status = "active")
             => (sessionExpiry = 0 /\ Has(vscodeSession'))]_vars

\* C32 amended: the session record is the only presence key with a TTL; it disappears
\* only when it is ended and 300 s have passed since its endTime, and never while its
\* status is active; the passing of time removes no payload, status record or heartbeat
\* mark; the rate-limit marker is the one key that lives less than the timeout, and
\* it disappears only RATE_LIMIT_TTL after the accepted update that wrote it
C32_PresenceTTLsExceedTimeout ==
    [][/\ (Has(vscodeSession) /\ ~Has(vscodeSession'))
             => /\ out'.op = "tick"
                /\ vscodeSession[1].status = "ended"
                /\ clock' >= vscodeSession[1].endTime + SESSION_HISTORY_TTL
                /\ SESSION_HISTORY_TTL > HEARTBEAT_TIMEOUT
       /\ (Has(vscodeSession) /\ vscodeSession[1].status = "active")
             => (sessionExpiry = 0 /\ Has(vscodeSession'))
       /\ out'.op = "tick"
             => /\ vscodeActivity' = vscodeActivity
                /\ vscodeStatus' = vscodeStatus
                /\ vscodeHeartbeat' = vscodeHeartbeat
                /\ discordActivity' = discordActivity
                /\ discordStatus' = discordStatus
                /\ discordHeartbeat' = discordHeartbeat
       /\ \A s \in RateLimitIds :
             (rateLimit[s] # 0 /\ rateLimit'[s] = 0)
                => (out'.op = "tick" /\ clock' >= rateLimit[s] + RATE_LIMIT_TTL)]_vars

\* C32 witness: a session ended by /vscode-cleanup has been kept 300 s and is gone; the
\* status record written with it is still stored
C32_Witness ==
    /\ out.op = "tick"
    /\ ~Has(vscodeSession)
    /\ Has(vscodeStatus)
    /\ vscodeStatus[1].sessionId # ""
    /\ clock >= vscodeStatus[1].offline_since + SESSION_HISTORY_TTL

\* C32: the rate-limit marker of the update accepted at 2 s is gone at 4 s, while the
\* session that update belongs to is active
C32_WitnessMarker ==
    /\ clock = MarkerExpiryInstant
    /\ \A s \in RateLimitIds : rateLimit[s] = 0
    /\ Has(vscodeStatus)
    /\ vscodeStatus[1].last_seen = LastRequestInstant
    /\ Has(vscodeSession)
    /\ vscodeSession[1].status = "active"

\* C33: a tick of checkHeartbeats changes the status or the session of a source, or
\* publishes its offline event, only if the heartbeat mark of that source is more than
\* HEARTBEAT_TIMEOUT older than the tick's now; a source whose mark is at most that old
\* is left as it is
C33_NoTimeoutWhileAlive ==
    [][out'.op = "poll"
        => /\ (vscodeHeartbeat = 0 \/ clock - vscodeHeartbeat <= HEARTBEAT_TIMEOUT)
                => /\ vscodeStatus' = vscodeStatus
                   /\ vscodeSession' = vscodeSession
                   /\ ~Emitted(out', "vscode-offline")
           /\ (discordHeartbeat = 0 \/ clock - discordHeartbeat <= HEARTBEAT_TIMEOUT)
                => /\ discordStatus' = discordStatus
                   /\ ~Emitted(out', "discord-offline")
           /\ \A c \in Conns :
                Len(inbox'[c]) - Len(inbox[c]) =
                    (IF vscodeHeartbeat # 0 /\ clock - vscodeHeartbeat > HEARTBEAT_TIMEOUT
                        /\ Open(c) THEN 1 ELSE 0)
                  + (IF discordHeartbeat # 0 /\ clock - discordHeartbeat > HEARTBEAT_TIMEOUT
                        /\ Open(c) THEN 1 ELSE 0)]_vars

\* C33 witness: the tick finds both marks exactly 30 s old and leaves both sources online
C33_Witness ==
    /\ out.op = "poll"
    /\ out.events = <<>>
    /\ vscodeHeartbeat # 0
    /\ clock - vscodeHeartbeat = HEARTBEAT_TIMEOUT
    /\ discordHeartbeat # 0
    /\ clock - discordHeartbeat = HEARTBEAT_TIMEOUT
    /\ Has(vscodeStatus)
    /\ Has(vscodeSession)
    /\ vscodeStatus[1].is_active
    /\ vscodeSession[1].status = "active"
    /\ discordStatus[1].current_status = "online"
    /\ Open("c1")
    /\ inbox["c1"] = <<>>

\* C33: an editor that sent an update at 5 s and a heartbeat at 35 s is still active after
\* the tick at 40 s, which has timed out the chat source, silent since 5 s
C33_WitnessKeptAlive ==
    /\ out.op = "poll"
    /\ out.events = <<"discord-offline">>
    /\ clock = 2 * POLL_INTERVAL + HEARTBEAT_TIMEOUT
    /\ vscodeHeartbeat = POLL_INTERVAL + HEARTBEAT_TIMEOUT
    /\ Has(vscodeStatus)
    /\ Has(vscodeSession)
    /\ vscodeStatus[1].is_active
    /\ vscodeStatus[1].last_seen = POLL_INTERVAL
    /\ vscodeSession[1].status = "active"
    /\ vscodeSession[1].endTime = 0

\* C34 as claimed: the stored session record is active exactly when it has no endTime,
\* and ended exactly when it has an endTime and an endReason
C34_ActiveIffNoEndTime ==
    Has(vscodeSession)
        => /\ vscodeSession[1].status = "active" <=> vscodeSession[1].endTime = 0
           /\ vscodeSession[1].status = "ended"
                <=> (vscodeSession[1].endTime # 0 /\ vscodeSession[1].endReason # "")

\* C34 witness: POST /vscode-heartbeat has just been answered 200 and the stored session
\* is active with the endTime and endReason of the timeout that ended it
C34_Witness ==
    /\ out.op = "vscode-heartbeat"
    /\ out.code = 200
    /\ Has(vscodeSession)
    /\ vscodeSession[1].status = "active"
    /\ vscodeSession[1].endTime # 0
    /\ vscodeSession[1].endReason = "timeout"
    /\ vscodeSession[1].lastHeartbeat > vscodeSession[1].endTime

\* status and endTime of a session record agree
StatusAgrees(sessionData) ==
    Has(sessionData) => (sessionData[1].status = "active" <=> sessionData[1].endTime = 0)

\* C34: the agreement is lost only by a heartbeat on an ended record, sent by POST
\* /vscode-heartbeat or by updateVSCodeHeartbeat in a deduplicated update
C34_OnlyHeartbeatBreaksIt ==
    [][(StatusAgrees(vscodeSession) /\ ~StatusAgrees(vscodeSession'))
          => /\ out'.op \in {"vscode-heartbeat", "vscode-activity"}
             /\ Has(vscodeSession)
             /\ vscodeSession[1].status = "ended"
             /\ vscodeSession' = HeartbeatSession(vscodeSession, clock)]_vars

\* the step is an editor update answered 200
AcceptedUpdate == out'.op = "vscode-activity" /\ out'.code = 200

\* C35 as claimed: after an accepted update the stored online_since is the startTime of
\* the session stored after the update
C35_OnlineSinceIsSessionStart ==
    [][AcceptedUpdate
        => /\ Has(vscodeStatus')
           /\ Has(vscodeSession')
           /\ vscodeStatus'[1].online_since = vscodeSession'[1].startTime]_vars

\* C35 witness: the update just accepted has started a session of its own, and the stored
\* online_since is earlier than that session's startTime
C35_Witness ==
    /\ out.op = "vscode-activity"
    /\ out.code = 200
    /\ Has(vscodeStatus)
    /\ Has(vscodeSession)
    /\ vscodeSession[1].startTime = clock
    /\ vscodeSession[1].sessionId = vscodeStatus[1].sessionId
    /\ vscodeStatus[1].online_since # 0
    /\ vscodeStatus[1].online_since < vscodeSession[1].startTime

\* C35: an accepted update that finds no session record, or continues the active
\* session it finds, leaves online_since equal to the startTime of the stored session;
\* one that replaces a session record leaves the startTime of the replaced record
C35_OnlineSinceIsStartOfSessionRead ==
    [][AcceptedUpdate
        => /\ Has(vscodeStatus')
           /\ Has(vscodeSession')
           /\ vscodeStatus'[1].online_since =
                 IF Has(vscodeSession) THEN vscodeSession[1].startTime
                 ELSE vscodeSession'[1].startTime
           /\ (~Has(vscodeSession)
                \/ (/\ vscodeSession[1].status = "active"
                    /\ vscodeSession[1].sessionId = vscodeSession'[1].sessionId))
                => vscodeStatus'[1].online_since = vscodeSession'[1].startTime]_vars

\* C36: a setDiscordActivity that finds a status record and keeps the source on its
\* side (offline to offline, non-offline to non-offline) leaves online_since and
\* offline_since as stored and writes current_status, last_seen, the payload and the
\* heartbeat mark
C36_NoTransitionKeepsTimestamps ==
    [][(/\ out'.op = "discord-activity"
        /\ Has(discordStatus)
        /\ discordStatus[1].current_status = "offline"
              <=> discordStatus'[1].current_status = "offline")
          => /\ discordStatus'[1].online_since = discordStatus[1].online_since
             /\ discordStatus'[1].offline_since = discordStatus[1].offline_since
             /\ discordStatus'[1].last_seen = clock
             /\ discordHeartbeat' = clock
             /\ Has(discordActivity')
             /\ discordActivity'[1].status = discordStatus'[1].current_status
             /\ discordActivity'[1].timestamp = clock]_vars

\* C36 witness: a presence event has left the source non-offline after time had passed:
\* the status is idle as of now and online_since is still the earlier time
C36_Witness ==
    /\ out.op = "discord-activity"
    /\ Has(discordStatus)
    /\ discordStatus[1].current_status = "idle"
    /\ discordStatus[1].last_seen = clock
    /\ discordStatus[1].online_since # 0
    /\ discordStatus[1].online_since < clock
    /\ discordStatus[1].offline_since = 0

\* C36: an offline presence event for a source that is already offline keeps the
\* offline_since of the earlier time
C36_WitnessOffline ==
    /\ out.op = "discord-activity"
    /\ Has(discordStatus)
    /\ discordStatus[1].current_status = "offline"
    /\ discordStatus[1].last_seen = clock
    /\ discordStatus[1].offline_since # 0
    /\ discordStatus[1].offline_since < clock

\* the last presence event stored for the chat source said offline
OfflineByPresenceEvent ==
    /\ Has(discordActivity)
    /\ discordActivity[1].status = "offline"
    /\ Has(discordStatus)
    /\ discordStatus[1].current_status = "offline"

\* C37 as claimed: a tick of checkHeartbeats leaves a chat source that a presence event
\* recorded offline as it is, and publishes no discord-offline for it
C37_OfflineNotTransitionedAgain ==
    [][(out'.op = "poll" /\ OfflineByPresenceEvent)
          => /\ discordStatus' = discordStatus
             /\ ~Emitted(out', "discord-offline")]_vars

\* C37 witness: the presence event said offline at an earlier time; the tick has just
\* published discord-offline and moved offline_since to now
C37_Witness ==
    /\ out.op = "poll"
    /\ Emitted(out, "discord-offline")
    /\ OfflineByPresenceEvent
    /\ discordActivity[1].timestamp < clock
    /\ discordHeartbeat = discordActivity[1].timestamp
    /\ discordStatus[1].offline_since = clock

\* C37: while the mark written by the offline presence event is at most 30 s old, ticks
\* leave the source as it is
C37_UntouchedUntilMarkIsStale ==
    [][(/\ out'.op = "poll"
        /\ OfflineByPresenceEvent
        /\ clock - discordHeartbeat <= HEARTBEAT_TIMEOUT)
          => /\ discordStatus' = discordStatus
             /\ ~Emitted(out', "discord-offline")]_vars

\* the editor as /vscode-cleanup leaves it: no heartbeat mark, no payload, the status
\* offline, and the session record, when one is stored, ended by hand
ShutDown ==
    /\ vscodeHeartbeat = 0
    /\ vscodeActivity = NoDoc
    /\ Has(vscodeStatus) /\ ~vscodeStatus[1].is_active
    /\ Has(vscodeSession) => /\ vscodeSession[1].status = "ended"
                             /\ vscodeSession[1].endReason = "manual"

\* the number of vscode-offline events written to response c
OfflineEventsSent(c) ==
    Cardinality({i \in 1..Len(inbox[c]) : inbox[c][i].event = "vscode-offline"})

\* C38: an authorised POST /vscode-cleanup leaves no heartbeat mark and no payload, the
\* status offline as of now and the stored session ended with reason manual as of now,
\* and writes exactly one vscode-offline event to every open subscriber and nothing to
\* the others; and while no further editor request is accepted, a poll tick changes no
\* editor key and publishes no vscode-offline
C38_CleanupIsFinal ==
    [][/\ (out'.op = "vscode-cleanup" /\ out'.code = 200)
           => /\ ShutDown'
              /\ vscodeStatus'[1].offline_since = clock
              /\ Has(vscodeSession) => /\ Has(vscodeSession')
                                       /\ vscodeSession'[1].endTime = clock
              /\ out'.events = <<"vscode-offline">>
              /\ \A c \in Conns :
                    inbox'[c] = IF Open(c)
                                THEN Append(inbox[c], Msg("vscode-offline", 0, ""))
                                ELSE inbox[c]
       /\ (out'.op = "poll" /\ ShutDown)
           => /\ vscodeKeys' = vscodeKeys
              /\ ~Emitted(out', "vscode-offline")
              /\ \A c \in Conns : OfflineEventsSent(c)' = OfflineEventsSent(c)]_vars

\* C38 witness: a poll more than 30 s after the cleanup of a session with a subscriber
\* listening: the session is ended by hand at the time of the cleanup, the status is
\* offline since then, and the subscriber holds the one vscode-offline of the cleanup
C38_Witness ==
    /\ out.op = "poll"
    /\ ShutDown
    /\ Has(vscodeSession)
    /\ vscodeSession[1].endReason = "manual"
    /\ clock - vscodeSession[1].endTime > HEARTBEAT_TIMEOUT
    /\ vscodeStatus[1].offline_since = vscodeSession[1].endTime
    /\ Open("c1")
    /\ OfflineEventsSent("c1") = 1

\* C38 witness: the cleanup itself, with two open subscribers that each got the event
C38_WitnessBoth ==
    /\ out.op = "vscode-cleanup"
    /\ out.code = 200
    /\ Has(vscodeSession)
    /\ Open("c1") /\ Open("c2")
    /\ OfflineEventsSent("c1") = 1
    /\ OfflineEventsSent("c2") = 1

\* C38 witness: a cleanup with no session stored leaves no session record
C38_WitnessNoSession ==
    /\ out.op = "vscode-cleanup"
    /\ out.code = 200
    /\ ShutDown
    /\ ~Has(vscodeSession)

\* the editor heartbeat mark is stored and younger than the timeout, as getHealthStats
\* computes vscode_active
MarkIsFresh == vscodeHeartbeat # 0 /\ clock - vscodeHeartbeat < HEARTBEAT_TIMEOUT

\* C39: with no operation in flight, a heartbeat mark younger than 30 s and a stored
\* status record imply that the record says is_active = true; in particular a heartbeat
\* received after a timeout marked the editor offline makes the stored status active
C39_FreshMarkMeansActive ==
    (redisQueue = <<>> /\ MarkIsFresh /\ Has(vscodeStatus)) => vscodeStatus[1].is_active

\* C39 witness: the editor was marked offline by a timeout and its heartbeat has just
\* been accepted: the mark is now, the session is active again and still carries the
\* timeout's endReason, and the status record still says offline
C39_Witness ==
    /\ out.op = "vscode-heartbeat"
    /\ out.code = 200
    /\ redisQueue = <<>>
    /\ vscodeHeartbeat = clock
    /\ Has(vscodeSession)
    /\ vscodeSession[1].status = "active"
    /\ vscodeSession[1].endReason = "timeout"
    /\ Has(vscodeStatus)
    /\ ~vscodeStatus[1].is_active

\* what holds instead: an accepted update leaves the mark fresh and the status active
C39_AcceptedUpdateAgrees ==
    [][(out'.op = "vscode-activity" /\ out'.code = 200)
          => (MarkIsFresh' /\ Has(vscodeStatus') /\ vscodeStatus'[1].is_active)]_vars

====
